---- MODULE Spec2Model ----
(***************************************************************************)
(* Model of the schema inference engine of helm-schema-gen                 *)
(* (pkg/schema-generator): the pattern table lookup, the recursive type    *)
(* inferrer, the YAML front end and the comment extractor.                 *)
(*                                                                         *)
(* Go strings are modelled as sequences of one-character strings, so that  *)
(* substring, prefix, suffix and case operations are computed and not      *)
(* assumed.  A Go nil pointer / nil map is the empty tuple <<>> and a      *)
(* non-nil one is a one-element tuple <<v>>.                               *)
(***************************************************************************)
EXTENDS Naturals, Integers, Sequences, FiniteSets, TLC

(***************************************************************************)
(* package strings                                                         *)
(***************************************************************************)
UpperChars ==
  <<"A","B","C","D","E","F","G","H","I","J","K","L","M",
    "N","O","P","Q","R","S","T","U","V","W","X","Y","Z">>

LowerChars ==
  <<"a","b","c","d","e","f","g","h","i","j","k","l","m",
    "n","o","p","q","r","s","t","u","v","w","x","y","z">>

\* unicode.ToLower on one (ASCII) character
LowerChar(c) ==
  IF \E i \in 1..Len(UpperChars) : UpperChars[i] = c
  THEN LowerChars[CHOOSE i \in 1..Len(UpperChars) : UpperChars[i] = c]
  ELSE c

\* unicode.IsLower on one (ASCII) character
\* strings.ToLower
ToLower(s) == [i \in 1..Len(s) |-> LowerChar(s[i])]

\* strings.HasPrefix
HasPrefix(s, p) == Len(p) <= Len(s) /\ SubSeq(s, 1, Len(p)) = p

\* strings.HasSuffix
HasSuffix(s, p) ==
  Len(p) <= Len(s) /\ SubSeq(s, Len(s) - Len(p) + 1, Len(s)) = p

\* strings.Contains
Contains(s, p) ==
  \E i \in 0..(Len(s) - Len(p)) : SubSeq(s, i + 1, i + Len(p)) = p

\* strings.TrimPrefix
TrimPrefix(s, p) ==
  IF HasPrefix(s, p) THEN SubSeq(s, Len(p) + 1, Len(s)) ELSE s

\* unicode.IsSpace on the ASCII white space characters
WhiteSpace == {" ", "\t", "\n", "\r"}

\* number of leading characters of s satisfying the cutset
RECURSIVE LeadingIn(_, _)
LeadingIn(s, cutset) ==
  IF s = <<>> \/ s[1] \notin cutset THEN 0
  ELSE 1 + LeadingIn(Tail(s), cutset)

\* number of trailing characters of s in the cutset
RECURSIVE TrailingIn(_, _)
TrailingIn(s, cutset) ==
  IF s = <<>> \/ s[Len(s)] \notin cutset THEN 0
  ELSE 1 + TrailingIn(SubSeq(s, 1, Len(s) - 1), cutset)

\* strings.TrimLeft(s, cutset)
TrimLeft(s, cutset) == SubSeq(s, LeadingIn(s, cutset) + 1, Len(s))

\* strings.TrimSpace
TrimSpace(s) ==
  LET l == TrimLeft(s, WhiteSpace)
  IN  SubSeq(l, 1, Len(l) - TrailingIn(l, WhiteSpace))

\* strings.Index for a one-character separator (0 when absent, else 1-based)
IndexChar(s, c) ==
  IF \E i \in 1..Len(s) : s[i] = c
  THEN CHOOSE i \in 1..Len(s) : s[i] = c /\ \A j \in 1..(i - 1) : s[j] # c
  ELSE 0

\* strings.SplitN(s, sep, 2)[0] for a one-character separator
SplitN2Head(s, c) ==
  IF IndexChar(s, c) = 0 THEN s ELSE SubSeq(s, 1, IndexChar(s, c) - 1)

\* strings.Join over a sequence of strings
RECURSIVE Join(_, _)
Join(parts, sep) ==
  IF parts = <<>> THEN <<>>
  ELSE IF Len(parts) = 1 THEN parts[1]
  ELSE parts[1] \o sep \o Join(Tail(parts), sep)

(***************************************************************************)
(* json_schema.go: SchemaType tags                                         *)
(***************************************************************************)
TypeString  == "string"
TypeNumber  == "number"
TypeInteger == "integer"
TypeBoolean == "boolean"
TypeObject  == "object"
TypeArray   == "array"
TypeNull    == "null"

(***************************************************************************)
(* shouldSupportMultipleTypes: the pattern table, in declaration order     *)
(***************************************************************************)
Rule1 ==
  [ patterns |-> <<
      <<"a","n","n","o","t","a","t","i","o","n","s">>,  \* annotations
      <<"l","a","b","e","l","s">>,  \* labels
      <<"n","o","d","e","s","e","l","e","c","t","o","r">>,  \* nodeselector
      <<"s","e","c","u","r","i","t","y","c","o","n","t","e","x","t">>,  \* securitycontext
      <<"a","f","f","i","n","i","t","y">>,  \* affinity
      <<"s","t","r","a","t","e","g","y">>,  \* strategy
      <<"n","e","t","w","o","r","k","p","o","l","i","c","y">>,  \* networkpolicy
      <<"o","b","j","e","c","t","s","e","l","e","c","t","o","r">>,  \* objectselector
      <<"p","o","d","d","i","s","r","u","p","t","i","o","n","b","u","d","g","e","t">>,  \* poddisruptionbudget
      <<"h","o","s","t","a","l","i","a","s","e","s">>,  \* hostaliases
      <<"m","a","t","c","h","l","a","b","e","l","s">>,  \* matchlabels
      <<"n","o","d","e","a","f","f","i","n","i","t","y">>,  \* nodeaffinity
      <<"p","o","d","a","f","f","i","n","i","t","y">>,  \* podaffinity
      <<"p","o","d","a","n","t","i","a","f","f","i","n","i","t","y">>,  \* podantiaffinity
      <<"s","e","l","e","c","t","o","r">>,  \* selector
      <<"t","o","p","o","l","o","g","y">>,  \* topology
      <<"r","u","l","e","s">>,  \* rules
      <<"e","x","p","r","e","s","s","i","o","n","s">>,  \* expressions
      <<"r","o","l","l","i","n","g","u","p","d","a","t","e">>  \* rollingupdate
    >>,
    matchType |-> "contains",
    types |-> <<TypeObject, TypeString>> ]

Rule2 ==
  [ patterns |-> <<
      <<"a","u","t","o","s","c","a","l","i","n","g">>,  \* autoscaling
      <<"f","o","r","c","e","u","p","g","r","a","d","e">>,  \* forceupgrade
      <<"c","r","e","a","t","e","n","a","m","e","s","p","a","c","e">>,  \* createnamespace
      <<"a","u","t","o","s","y","n","c">>,  \* autosync
      <<"p","e","r","s","i","s","t","e","n","c","e">>,  \* persistence
      <<"t","l","s">>,  \* tls
      <<"a","u","t","h">>,  \* auth
      <<"h","o","s","t","n","e","t","w","o","r","k">>,  \* hostnetwork
      <<"h","o","s","t","p","i","d">>,  \* hostpid
      <<"h","o","s","t","i","p","c">>,  \* hostipc
      <<"s","i","n","g","l","e","n","a","m","e","s","p","a","c","e">>,  \* singlenamespace
      <<"d","e","b","u","g">>,  \* debug
      <<"r","b","a","c">>,  \* rbac
      <<"m","o","n","i","t","o","r","i","n","g">>,  \* monitoring
      <<"i","s","t","i","o">>,  \* istio
      <<"s","e","r","v","i","c","e","a","c","c","o","u","n","t">>,  \* serviceaccount
      <<"a","u","t","o","m","o","u","n","t","t","o","k","e","n">>,  \* automounttoken
      <<"p","r","i","o","r","i","t","y","c","l","a","s","s">>,  \* priorityclass
      <<"m","e","t","r","i","c","s">>,  \* metrics
      <<"t","r","a","c","i","n","g">>  \* tracing
    >>,
    matchType |-> "contains",
    types |-> <<TypeBoolean, TypeString>> ]

Rule3 ==
  [ patterns |-> <<
      <<"e","n","a","b","l","e","d">>  \* enabled
    >>,
    matchType |-> "exact-or-suffix",
    types |-> <<TypeBoolean, TypeString>> ]

Rule4 ==
  [ patterns |-> <<
      <<"t","o","l","e","r","a","t","i","o","n","s">>,  \* tolerations
      <<"t","o","p","o","l","o","g","y","s","p","r","e","a","d","c","o","n","s","t","r","a","i","n","t","s">>,  \* topologyspreadconstraints
      <<"v","o","l","u","m","e","s">>,  \* volumes
      <<"i","n","i","t","c","o","n","t","a","i","n","e","r","s">>,  \* initcontainers
      <<"e","x","t","r","a","c","o","n","t","a","i","n","e","r","s">>,  \* extracontainers
      <<"v","o","l","u","m","e","m","o","u","n","t","s">>,  \* volumemounts
      <<"i","m","a","g","e","p","u","l","l","s","e","c","r","e","t","s">>,  \* imagepullsecrets
      <<"h","o","s","t","a","l","i","a","s">>,  \* hostalias
      <<"s","i","d","e","c","a","r","s">>,  \* sidecars
      <<"e","x","t","r","a","v","o","l","u","m","e","s">>,  \* extravolumes
      <<"e","x","t","r","a","i","n","i","t","c","o","n","t","a","i","n","e","r","s">>,  \* extrainitcontainers
      <<"e","n","v","f","r","o","m">>,  \* envfrom
      <<"a","r","g","s">>,  \* args
      <<"c","o","m","m","a","n","d">>,  \* command
      <<"p","o","r","t","s">>,  \* ports
      <<"e","n","v">>,  \* env
      <<"e","n","v","i","r","o","n","m","e","n","t">>,  \* environment
      <<"s","e","c","r","e","t","s">>,  \* secrets
      <<"c","o","n","f","i","g","m","a","p","s">>,  \* configmaps
      <<"p","o","d","s">>,  \* pods
      <<"e","n","d","p","o","i","n","t","s">>,  \* endpoints
      <<"t","l","s",".","h","o","s","t","s">>,  \* tls.hosts
      <<"i","n","g","r","e","s","s",".","h","o","s","t","s">>,  \* ingress.hosts
      <<"h","o","s","t","A","l","i","a","s","e","s">>,  \* hostAliases
      <<"d","e","p","l","o","y","m","e","n","t","a","n","n","o","t","a","t","i","o","n","s">>,  \* deploymentannotations
      <<"p","o","d","s","e","c","u","r","i","t","y","c","o","n","t","e","x","t">>,  \* podsecuritycontext
      <<"p","e","r","m","i","s","s","i","o","n","s">>  \* permissions
    >>,
    matchType |-> "contains",
    types |-> <<TypeNull, TypeArray, TypeString>> ]

Rule5 ==
  [ patterns |-> <<
      <<"s","e","c","r","e","t","n","a","m","e">>,  \* secretname
      <<"s","t","o","r","a","g","e","c","l","a","s","s">>,  \* storageclass
      <<"s","e","r","v","i","c","e","n","o","d","e","p","o","r","t">>,  \* servicenodeport
      <<"p","r","i","o","r","i","t","y","c","l","a","s","s","n","a","m","e">>,  \* priorityclassname
      <<"c","e","r","t","n","a","m","e">>,  \* certname
      <<"k","e","y","n","a","m","e">>,  \* keyname
      <<"c","a","b","u","n","d","l","e">>,  \* cabundle
      <<"i","n","g","r","e","s","s","c","l","a","s","s","n","a","m","e">>,  \* ingressclassname
      <<"a","u","t","h","s","e","c","r","e","t">>,  \* authsecret
      <<"n","a","m","e","s","p","a","c","e">>,  \* namespace
      <<"f","i","n","a","l","i","z","e","r">>,  \* finalizer
      <<"s","e","r","v","i","c","e","n","a","m","e">>,  \* servicename
      <<"c","l","u","s","t","e","r","r","o","l","e">>,  \* clusterrole
      <<"r","o","l","e">>,  \* role
      <<"h","e","a","l","t","h","c","h","e","c","k","p","a","t","h">>,  \* healthcheckpath
      <<"m","o","u","n","t","p","a","t","h">>,  \* mountpath
      <<"f","i","l","e","n","a","m","e">>,  \* filename
      <<"s","e","c","r","e","t","k","e","y">>,  \* secretkey
      <<"t","i","m","e","z","o","n","e">>,  \* timezone
      <<"b","o","o","t","s","t","r","a","p","s","e","r","v","e","r","s">>,  \* bootstrapservers
      <<"t","o","p","i","c">>  \* topic
    >>,
    matchType |-> "contains",
    types |-> <<TypeNull, TypeString>> ]

Rule6 ==
  [ patterns |-> <<
      <<"m","a","x","u","n","a","v","a","i","l","a","b","l","e">>,  \* maxunavailable
      <<"n","o","d","e","p","o","r","t">>,  \* nodeport
      <<"r","e","p","l","i","c","a","c","o","u","n","t">>,  \* replicacount
      <<"r","e","p","l","i","c","a","s">>,  \* replicas
      <<"p","o","r","t">>,  \* port
      <<"t","a","r","g","e","t","p","o","r","t">>,  \* targetport
      <<"c","o","n","t","a","i","n","e","r","p","o","r","t">>,  \* containerport
      <<"s","e","r","v","i","c","e","p","o","r","t">>,  \* serviceport
      <<"m","e","t","r","i","c","s","p","o","r","t">>,  \* metricsport
      <<"h","e","a","l","t","h","p","o","r","t">>,  \* healthport
      <<"r","e","a","d","i","n","e","s","s","p","o","r","t">>,  \* readinessport
      <<"m","a","x","r","e","p","l","i","c","a","s">>,  \* maxreplicas
      <<"m","i","n","r","e","p","l","i","c","a","s">>,  \* minreplicas
      <<"t","e","r","m","i","n","a","t","i","o","n","g","r","a","c","e","p","e","r","i","o","d","s","e","c","o","n","d","s">>,  \* terminationgraceperiodseconds
      <<"b","a","c","k","o","f","f","l","i","m","i","t">>,  \* backofflimit
      <<"f","a","i","l","u","r","e","t","h","r","e","s","h","o","l","d">>,  \* failurethreshold
      <<"s","u","c","c","e","s","s","t","h","r","e","s","h","o","l","d">>,  \* successthreshold
      <<"i","n","i","t","i","a","l","d","e","l","a","y","s","e","c","o","n","d","s">>,  \* initialdelayseconds
      <<"t","i","m","e","o","u","t","s","e","c","o","n","d","s">>,  \* timeoutseconds
      <<"p","e","r","i","o","d","s","e","c","o","n","d","s">>,  \* periodseconds
      <<"m","i","n","a","v","a","i","l","a","b","l","e">>,  \* minavailable
      <<"r","e","t","e","n","t","i","o","n">>,  \* retention
      <<"t","i","m","e","o","u","t">>,  \* timeout
      <<"l","i","m","i","t">>,  \* limit
      <<"w","e","i","g","h","t">>  \* weight
    >>,
    matchType |-> "contains",
    types |-> <<TypeNull, TypeInteger>> ]

Rule7 ==
  [ patterns |-> <<
      <<"c","o","n","f","i","g">>,  \* config
      <<"e","x","t","r","a","e","n","v">>,  \* extraenv
      <<"e","x","t","r","a","e","n","v","i","r","o","n","m","e","n","t","v","a","r","s">>,  \* extraenvironmentvars
      <<"e","x","t","r","a","v","o","l","u","m","e","c","o","n","f","i","g">>,  \* extravolumeconfig
      <<"c","o","n","f","i","g","u","r","a","t","i","o","n">>,  \* configuration
      <<"s","e","t","t","i","n","g","s">>,  \* settings
      <<"o","p","t","i","o","n","s">>,  \* options
      <<"p","a","r","a","m","e","t","e","r","s">>,  \* parameters
      <<"p","r","o","p","e","r","t","i","e","s">>,  \* properties
      <<"a","u","t","h","e","n","t","i","c","a","t","i","o","n">>,  \* authentication
      <<"a","u","t","h","o","r","i","z","a","t","i","o","n">>,  \* authorization
      <<"s","e","c","u","r","i","t","y">>,  \* security
      <<"n","e","t","w","o","r","k","i","n","g">>,  \* networking
      <<"c","u","s","t","o","m","v","a","l","u","e","s">>,  \* customvalues
      <<"e","x","t","r","a","c","o","n","f","i","g","s">>  \* extraconfigs
    >>,
    matchType |-> "contains",
    types |-> <<TypeString, TypeObject>> ]

Rule8 ==
  [ patterns |-> <<
      <<"r","e","s","o","u","r","c","e","s",".","l","i","m","i","t","s",".","m","e","m","o","r","y">>,  \* resources.limits.memory
      <<"r","e","s","o","u","r","c","e","s",".","r","e","q","u","e","s","t","s",".","m","e","m","o","r","y">>,  \* resources.requests.memory
      <<"m","e","m","o","r","y">>,  \* memory
      <<"r","e","s","o","u","r","c","e","s",".","l","i","m","i","t","s",".","c","p","u">>,  \* resources.limits.cpu
      <<"r","e","s","o","u","r","c","e","s",".","r","e","q","u","e","s","t","s",".","c","p","u">>,  \* resources.requests.cpu
      <<"c","p","u">>,  \* cpu
      <<"r","e","s","o","u","r","c","e","s",".","l","i","m","i","t","s">>,  \* resources.limits
      <<"r","e","s","o","u","r","c","e","s",".","r","e","q","u","e","s","t","s">>,  \* resources.requests
      <<"t","h","r","e","s","h","o","l","d">>,  \* threshold
      <<"p","e","r","c","e","n","t","a","g","e">>,  \* percentage
      <<"r","a","t","i","o">>,  \* ratio
      <<"f","a","c","t","o","r">>,  \* factor
      <<"s","c","a","l","a","r">>,  \* scalar
      <<"w","e","i","g","h","t">>,  \* weight
      <<"s","c","a","l","e">>,  \* scale
      <<"b","y","t","e","s">>,  \* bytes
      <<"s","i","z","e">>,  \* size
      <<"q","u","o","t","a">>,  \* quota
      <<"m","a","x","s","u","r","g","e">>,  \* maxsurge
      <<"m","i","n","a","v","a","i","l","a","b","l","e">>,  \* minavailable
      <<"r","e","t","e","n","t","i","o","n">>  \* retention
    >>,
    matchType |-> "contains",
    types |-> <<TypeString, TypeInteger, TypeNumber>> ]

Rule9 ==
  [ patterns |-> <<
      <<"p","r","e","f","e","r","e","n","c","e">>,  \* preference
      <<"m","o","d","e">>,  \* mode
      <<"s","t","a","t","e">>,  \* state
      <<"s","t","a","t","u","s">>,  \* status
      <<"l","e","v","e","l">>,  \* level
      <<"t","y","p","e">>,  \* type
      <<"p","o","l","i","c","y">>,  \* policy
      <<"p","r","o","t","o","c","o","l">>  \* protocol
    >>,
    matchType |-> "contains",
    types |-> <<TypeString, TypeInteger, TypeBoolean>> ]

Rule10 ==
  [ patterns |-> <<
      <<"j","s","o","n">>,  \* json
      <<"r","a","w">>,  \* raw
      <<"p","a","t","c","h">>,  \* patch
      <<"t","e","m","p","l","a","t","e">>,  \* template
      <<"c","u","s","t","o","m","d","a","t","a">>,  \* customdata
      <<"e","x","t","r","a","d","a","t","a">>,  \* extradata
      <<"o","v","e","r","r","i","d","e">>,  \* override
      <<"m","a","n","i","f","e","s","t">>  \* manifest
    >>,
    matchType |-> "contains",
    types |-> <<TypeString, TypeObject, TypeArray>> ]

Rule11 ==
  [ patterns |-> <<
      <<"c","o","n","t","a","i","n","e","r","p","o","r","t">>,  \* containerport
      <<"s","e","r","v","i","c","e","t","y","p","e">>,  \* servicetype
      <<"i","n","g","r","e","s","s","t","y","p","e">>,  \* ingresstype
      <<"s","e","c","r","e","t","t","y","p","e">>,  \* secrettype
      <<"p","o","d","a","n","n","o","t","a","t","i","o","n","s">>,  \* podannotations
      <<"a","c","c","e","s","s","m","o","d","e","s">>,  \* accessmodes
      <<"p","a","t","h","t","y","p","e">>,  \* pathtype
      <<"r","e","a","d","i","n","e","s","s","p","r","o","b","e">>,  \* readinessprobe
      <<"l","i","v","e","n","e","s","s","p","r","o","b","e">>,  \* livenessprobe
      <<"s","t","a","r","t","u","p","p","r","o","b","e">>,  \* startupprobe
      <<"v","o","l","u","m","e","s","o","u","r","c","e">>,  \* volumesource
      <<"v","o","l","u","m","e","t","y","p","e">>,  \* volumetype
      <<"s","e","r","v","i","c","e",".","c","o","n","t","a","i","n","e","r","p","o","r","t">>  \* service.containerport
    >>,
    matchType |-> "contains",
    types |-> <<TypeString, TypeObject, TypeArray>> ]

PatternMappings ==
  <<Rule1, Rule2, Rule3, Rule4, Rule5, Rule6, Rule7, Rule8, Rule9, Rule10,
    Rule11>>

\* the switch on mapping.matchType
IsMatch(matchType, pathLower, pattern) ==
  CASE matchType = "contains" -> Contains(pathLower, pattern)
    [] matchType = "suffix" -> HasSuffix(pathLower, pattern)
    [] matchType = "exact" -> pathLower = pattern
    [] matchType = "exact-or-suffix" ->
         pathLower = pattern \/ HasSuffix(pathLower, <<".">> \o pattern)
    [] OTHER -> FALSE

\* inner loop: the patterns of one mapping, in order, from index j
RECURSIVE AnyPatternMatches(_, _, _)
AnyPatternMatches(mapping, pathLower, j) ==
  IF j > Len(mapping.patterns) THEN FALSE
  ELSE IF IsMatch(mapping.matchType, pathLower, mapping.patterns[j]) THEN TRUE
  ELSE AnyPatternMatches(mapping, pathLower, j + 1)

\* an outer loop that keeps scanning after a match: the last match wins
RECURSIVE ScanMappingsLastWins(_, _, _)
ScanMappingsLastWins(mappings, pathLower, i) ==
  IF i > Len(mappings) THEN [matched |-> FALSE, types |-> <<>>]
  ELSE LET later == ScanMappingsLastWins(mappings, pathLower, i + 1)
       IN  IF later.matched THEN later
           ELSE IF AnyPatternMatches(mappings[i], pathLower, 1)
           THEN [matched |-> TRUE, types |-> mappings[i].types]
           ELSE later

\* outer loop: the mappings in declaration order, from index i; returns on
\* the first mapping with a matching pattern
RECURSIVE ScanMappings(_, _, _)
ScanMappings(mappings, pathLower, i) ==
  IF i > Len(mappings) THEN [matched |-> FALSE, types |-> <<>>]
  ELSE IF AnyPatternMatches(mappings[i], pathLower, 1)
       THEN [matched |-> TRUE, types |-> mappings[i].types]
       ELSE ScanMappings(mappings, pathLower, i + 1)

\* shouldSupportMultipleTypes(path) -> (bool, []SchemaType); a nil list is <<>>
shouldSupportMultipleTypes(path) ==
  ScanMappings(PatternMappings, ToLower(path), 1)

(***************************************************************************)
(* Value nodes: what the YAML decoder hands to the generator.              *)
(*   [kind |-> "nil"]                        Go nil                        *)
(*   [kind |-> "bool",   b |-> BOOLEAN]                                    *)
(*   [kind |-> "int",    n |-> Int]          int / int64                   *)
(*   [kind |-> "uint",   u |-> Nat]          uint64 (integer > MaxInt64)   *)
(*   [kind |-> "float",  f |-> chars]        float64, by its decimal text  *)
(*   [kind |-> "string", s |-> chars]                                      *)
(*   [kind |-> "slice",  elems |-> sequence of values]        []any        *)
(*   [kind |-> "map",    m |-> function key -> value]   map[string]any     *)
(*   [kind |-> "yamlmap", ym |-> function rawkey -> value] map[any]any     *)
(* A raw key is [str |-> BOOLEAN, text |-> chars]: str tells whether the   *)
(* decoder produced a Go string for it.                                    *)
(***************************************************************************)
NilValue == [kind |-> "nil"]
BoolValue(x) == [kind |-> "bool", b |-> x]
IntValue(x) == [kind |-> "int", n |-> x]
UintValue(x) == [kind |-> "uint", u |-> x]
FloatValue(x) == [kind |-> "float", f |-> x]
StringValue(x) == [kind |-> "string", s |-> x]
SliceValue(x) == [kind |-> "slice", elems |-> x]
MapValue(x) == [kind |-> "map", m |-> x]
YamlMapValue(x) == [kind |-> "yamlmap", ym |-> x]

(***************************************************************************)
(* Schema.Type is an `any`: unset, one SchemaType, or a []SchemaType.      *)
(***************************************************************************)
NoType == [k |-> "none", tags |-> <<>>]
Single(t) == [k |-> "single", tags |-> <<t>>]
Union(ts) == [k |-> "list", tags |-> ts]

\* the Schema struct, zero value; only the fields the generator touches
ZeroSchema ==
  [ Schema      |-> "",
    Title       |-> "",
    Description |-> <<>>,
    Type        |-> NoType,
    Format      |-> "",
    Properties  |-> <<>>,
    Required    |-> <<>>,
    Items       |-> <<>>,
    MinItems    |-> <<>>,
    MaxItems    |-> <<>>,
    Enum        |-> <<>>,
    Default     |-> <<>>,
    Examples    |-> <<>>,
    HelmPath    |-> <<>> ]

(***************************************************************************)
(* type_detection.go: string format predicates                             *)
(***************************************************************************)
isDate(s) == Len(s) = 10 /\ s[5] = "-" /\ s[8] = "-"

isDateTime(s) == Len(s) >= 19 /\ s[5] = "-" /\ s[8] = "-" /\ s[11] = "T"

isEmail(s) == Contains(s, <<"@">>) /\ Contains(s, <<".">>)

isURI(s) ==
  \/ HasPrefix(s, <<"h","t","t","p",":","/","/">>)
  \/ HasPrefix(s, <<"h","t","t","p","s",":","/","/">>)

(***************************************************************************)
(* schema_generator.go: isLikelyYAMLOrJSON                                 *)
(***************************************************************************)
\* bufio.Scanner with ScanLines: split s at "\n", dropping one trailing "\r"
\* of each line; no final empty token
RECURSIVE ScanLines(_)
ScanLines(s) ==
  IF s = <<>> THEN <<>>
  ELSE LET i == IndexChar(s, "\n")
           raw == IF i = 0 THEN s ELSE SubSeq(s, 1, i - 1)
           line == IF raw # <<>> /\ raw[Len(raw)] = "\r"
                   THEN SubSeq(raw, 1, Len(raw) - 1) ELSE raw
           rest == IF i = 0 THEN <<>> ELSE SubSeq(s, i + 1, Len(s))
       IN  <<line>> \o ScanLines(rest)

\* variant: a key-value line needs a space after its ':'
isLikelyYAMLOrJSONSpaced(str) ==
  LET s == TrimSpace(str)
      lines == ScanLines(s)
  IN  \/ HasPrefix(s, <<"{">>) /\ HasSuffix(s, <<"}">>)
      \/ HasPrefix(s, <<"[">>) /\ HasSuffix(s, <<"]">>)
      \/ \E i \in 1..Len(lines) :
           LET line == TrimSpace(lines[i])
           IN  /\ ~(line = <<>> \/ HasPrefix(line, <<"#">>))
               /\ Contains(line, <<":", " ">>)

\* variant: only the JSON-like wrapping is recognised
isLikelyJSONOnly(str) ==
  LET s == TrimSpace(str)
  IN  \/ HasPrefix(s, <<"{">>) /\ HasSuffix(s, <<"}">>)
      \/ HasPrefix(s, <<"[">>) /\ HasSuffix(s, <<"]">>)

isLikelyYAMLOrJSON(str) ==
  LET s == TrimSpace(str)
      lines == ScanLines(s)
  IN  \/ HasPrefix(s, <<"{">>) /\ HasSuffix(s, <<"}">>)
      \/ HasPrefix(s, <<"[">>) /\ HasSuffix(s, <<"]">>)
      \/ \E i \in 1..Len(lines) :
           LET line == TrimSpace(lines[i])
           IN  /\ ~(line = <<>> \/ HasPrefix(line, <<"#">>))
               /\ Contains(line, <<":">>)

(***************************************************************************)
(* type_detection.go: hasMixedTypes                                        *)
(***************************************************************************)
\* variant: integers and floats under one key
FoundTypeKeyNumeric(item) ==
  CASE item.kind = "nil" -> "null"
    [] item.kind \in {"int", "uint", "float"} -> "number"
    [] OTHER -> item.kind

\* the key hasMixedTypes records in foundTypes for one item
FoundTypeKey(item) ==
  CASE item.kind = "nil" -> "null"
    [] item.kind \in {"int", "uint"} -> "integer"
    [] item.kind = "float" -> "float"
    [] OTHER -> item.kind

\* the loop of hasMixedTypes from item i on, foundTypes being the keys so far
RECURSIVE MixedScan(_, _, _)
MixedScan(items, i, foundTypes) ==
  IF i > Len(items) THEN Cardinality(foundTypes) > 1
  ELSE LET found == foundTypes \cup {FoundTypeKey(items[i])}
       IN  IF items[i].kind = "nil" THEN MixedScan(items, i + 1, found)
           ELSE IF Cardinality(found) > 1 THEN TRUE
           ELSE MixedScan(items, i + 1, found)

hasMixedTypes(items) ==
  IF Len(items) <= 1 THEN FALSE ELSE MixedScan(items, 1, {})

\* the key InferArrayItemsWithMultipleTypes records in typeMap for one item
\* ("" when the kind is in no case of its switch)
TypeMapKey(item) ==
  CASE item.kind = "nil" -> "null"
    [] item.kind = "bool" -> "boolean"
    [] item.kind \in {"int", "uint", "float"} -> "number"
    [] item.kind = "string" -> "string"
    [] item.kind \in {"map", "yamlmap"} -> "object"
    [] item.kind = "slice" -> "array"
    [] OTHER -> ""

\* the SchemaType appended for one typeMap key (none for an unknown key)
TypeForName(typeName) ==
  CASE typeName = "null" -> <<TypeNull>>
    [] typeName = "boolean" -> <<TypeBoolean>>
    [] typeName = "integer" -> <<TypeInteger>>
    [] typeName = "number" -> <<TypeNumber>>
    [] typeName = "string" -> <<TypeString>>
    [] typeName = "object" -> <<TypeObject>>
    [] typeName = "array" -> <<TypeArray>>
    [] OTHER -> <<>>

\* `for typeName := range typeMap`: Go iterates a map in an unspecified
\* order; order is the order this run happens to use
RECURSIVE RangeTypeMap(_, _)
RangeTypeMap(typeMap, order) ==
  IF order = <<>> THEN <<>>
  ELSE (IF Head(order) \in typeMap THEN TypeForName(Head(order)) ELSE <<>>)
         \o RangeTypeMap(typeMap, Tail(order))

(***************************************************************************)
(* type_detection.go: inferSchema and InferArrayItemsWithMultipleTypes     *)
(*                                                                         *)
(* g is the Generator (its Options); ord fixes the iteration orders the Go *)
(* runtime picks for `range` over maps in this run: ord.keys lists the     *)
(* property keys, ord.tags the typeMap keys.  A result is                  *)
(* [err |-> BOOLEAN, schema |-> <<>> or <<s>>]: the Go result pair.        *)
(***************************************************************************)
Ok(schema) == [err |-> FALSE, schema |-> <<schema>>]
Fail == [err |-> TRUE, schema |-> <<>>]

\* variant: the structural type is kept whatever the pattern table says
ApplyOverrideNever(schema, path) == schema

\* if hasMultipleTypes, types := shouldSupportMultipleTypes(path) { Type = types }
ApplyOverride(schema, path) ==
  LET r == shouldSupportMultipleTypes(path)
  IN  IF r.matched THEN [schema EXCEPT !.Type = Union(r.types)] ELSE schema

\* the keys of a Go map in the iteration order of this run
RangeKeys(m, order) == SelectSeq(order, LAMBDA k : k \in DOMAIN m)

\* first loop of the reflect.Map case: some key suggests object/string
KeySuggestsMultipleTypes(k) ==
  LET kl == ToLower(k)
  IN  \/ HasSuffix(kl, <<"a","n","n","o","t","a","t","i","o","n","s">>)
      \/ HasSuffix(kl, <<"l","a","b","e","l","s">>)
      \/ HasSuffix(kl, <<"n","o","d","e","s","e","l","e","c","t","o","r">>)
      \/ HasSuffix(kl, <<"a","f","f","i","n","i","t","y">>)
      \/ HasSuffix(kl, <<"s","e","l","e","c","t","o","r">>)
      \/ HasSuffix(kl, <<"t","o","l","e","r","a","t","i","o","n","s">>)
      \/ HasSuffix(kl, <<"v","o","l","u","m","e","s">>)
      \/ HasSuffix(kl, <<"m","o","u","n","t","s">>)

\* variant: a null value is required too
AppendRequiredEvenNull(required, g, k, v) ==
  IF g.RequireByDefault THEN Append(required, k) ELSE required

\* `if g.Options.RequireByDefault && v != nil { required = append(required, k) }`
AppendRequired(required, g, k, v) ==
  IF g.RequireByDefault /\ v.kind # "nil" THEN Append(required, k) ELSE required

RECURSIVE inferSchema(_, _, _, _)
RECURSIVE InferProperties(_, _, _, _, _, _)
RECURSIVE InferArrayItemsWithMultipleTypes(_, _, _, _)

\* `if value == nil { ... }`
InferNil(path) ==
  Ok(ApplyOverride(
       [ZeroSchema EXCEPT !.Type = Single(TypeNull), !.HelmPath = path], path))

\* case reflect.Bool
InferBool(g, value, path) ==
  Ok(ApplyOverride(
       [ZeroSchema EXCEPT
          !.HelmPath = path,
          !.Type = Single(TypeBoolean),
          !.Default = IF g.IncludeExamples THEN <<value>> ELSE <<>>],
       path))

\* case reflect.Int, reflect.Int8, reflect.Int16, reflect.Int32, reflect.Int64
InferInt(g, value, path) ==
  Ok(ApplyOverride(
       [ZeroSchema EXCEPT
          !.HelmPath = path,
          !.Type = Single(TypeInteger),
          !.Examples = IF g.IncludeExamples THEN <<value>> ELSE <<>>],
       path))

\* case reflect.Float32, reflect.Float64
InferFloat(g, value, path) ==
  Ok(ApplyOverride(
       [ZeroSchema EXCEPT
          !.HelmPath = path,
          !.Type = Single(TypeNumber),
          !.Examples = IF g.IncludeExamples THEN <<value>> ELSE <<>>],
       path))

\* variant: the email test comes first
InferFormatEmailFirst(strValue) ==
  IF isEmail(strValue) THEN "email"
  ELSE IF isDate(strValue) THEN "date"
  ELSE IF isDateTime(strValue) THEN "date-time"
  ELSE IF isURI(strValue) THEN "uri"
  ELSE ""

\* the format inferred for a plain string
InferFormat(strValue) ==
  IF isDate(strValue) THEN "date"
  ELSE IF isDateTime(strValue) THEN "date-time"
  ELSE IF isEmail(strValue) THEN "email"
  ELSE IF isURI(strValue) THEN "uri"
  ELSE ""

\* the special case for "-" values in enabled fields
IsDashAtEnabled(strValue, path) ==
  /\ \/ path = <<"e","n","a","b","l","e","d">>
     \/ HasSuffix(path, <<".","e","n","a","b","l","e","d">>)
  /\ strValue = <<"-">>

\* case reflect.String
InferString(g, value, path) ==
  LET strValue == value.s
      r == shouldSupportMultipleTypes(path)
      typed ==
        IF r.matched
        THEN [ZeroSchema EXCEPT !.HelmPath = path, !.Type = Union(r.types)]
        ELSE IF isLikelyYAMLOrJSON(strValue)
        THEN [ZeroSchema EXCEPT
                !.HelmPath = path,
                !.Type = Union(<<TypeString, TypeObject>>)]
        ELSE [ZeroSchema EXCEPT
                !.HelmPath = path,
                !.Type = Single(TypeString),
                !.Format = InferFormat(strValue)]
      special ==
        IF IsDashAtEnabled(strValue, path)
        THEN [typed EXCEPT !.Type = Union(<<TypeString, TypeBoolean>>)]
        ELSE typed
  IN  Ok([special EXCEPT
            !.Examples =
              IF g.IncludeExamples THEN <<StringValue(strValue)>> ELSE <<>>])

\* variant: an empty array gets an items schema too
InferSliceItemsEvenEmpty(g, value, path, ord) ==
  LET base == [ZeroSchema EXCEPT !.HelmPath = path, !.Type = Single(TypeArray)]
      sliceInterface == value.elems
      itemPath == path \o <<"[", "0", "]">>
  IN  IF Len(sliceInterface) = 0
      THEN Ok(ApplyOverride(
                [base EXCEPT
                   !.Items = <<[ZeroSchema EXCEPT !.HelmPath = itemPath]>>],
                path))
      ELSE IF hasMixedTypes(sliceInterface)
      THEN LET mixed ==
                 InferArrayItemsWithMultipleTypes(g, sliceInterface, path, ord)
           IN  IF mixed.err THEN Fail
               ELSE Ok(ApplyOverride(
                         [base EXCEPT
                            !.Items =
                              <<[ZeroSchema EXCEPT
                                   !.Type = mixed.schema[1].Type]>>],
                         path))
      ELSE LET item == inferSchema(g, sliceInterface[1], itemPath, ord)
           IN  IF item.err THEN Fail
               ELSE Ok(ApplyOverride(
                         [base EXCEPT !.Items = <<item.schema[1]>>], path))

\* variant: the first element is inferred at the array's own path
InferSliceItemAtArrayPath(g, value, path, ord) ==
  LET base == [ZeroSchema EXCEPT !.HelmPath = path, !.Type = Single(TypeArray)]
      sliceInterface == value.elems
  IN  IF Len(sliceInterface) = 0 THEN Ok(ApplyOverride(base, path))
      ELSE IF hasMixedTypes(sliceInterface)
      THEN LET mixed ==
                 InferArrayItemsWithMultipleTypes(g, sliceInterface, path, ord)
           IN  IF mixed.err THEN Fail
               ELSE Ok(ApplyOverride(
                         [base EXCEPT
                            !.Items =
                              <<[ZeroSchema EXCEPT
                                   !.Type = mixed.schema[1].Type]>>],
                         path))
      ELSE LET item == inferSchema(g, sliceInterface[1], path, ord)
           IN  IF item.err THEN Fail
               ELSE Ok(ApplyOverride(
                         [base EXCEPT !.Items = <<item.schema[1]>>], path))

\* case reflect.Slice, reflect.Array
InferSlice(g, value, path, ord) ==
  LET base == [ZeroSchema EXCEPT !.HelmPath = path, !.Type = Single(TypeArray)]
      sliceInterface == value.elems
  IN  IF Len(sliceInterface) = 0 THEN Ok(ApplyOverride(base, path))
      ELSE IF hasMixedTypes(sliceInterface)
      THEN LET mixed ==
                 InferArrayItemsWithMultipleTypes(g, sliceInterface, path, ord)
           IN  IF mixed.err THEN Fail
               ELSE Ok(ApplyOverride(
                         [base EXCEPT
                            !.Items =
                              <<[ZeroSchema EXCEPT
                                   !.Type = mixed.schema[1].Type]>>],
                         path))
      ELSE LET itemPath == path \o <<"[", "0", "]">>
               item == inferSchema(g, sliceInterface[1], itemPath, ord)
           IN  IF item.err THEN Fail
               ELSE Ok(ApplyOverride(
                         [base EXCEPT !.Items = <<item.schema[1]>>], path))

\* variant: Properties is allocated only when the map has an entry
InferMapLazyProperties(g, value, path, ord) ==
  LET mapValue == value.m
      base ==
        [ZeroSchema EXCEPT
           !.HelmPath = path,
           !.Type =
             IF \E k \in DOMAIN mapValue : KeySuggestsMultipleTypes(k)
             THEN Union(<<TypeObject, TypeString>>)
             ELSE Single(TypeObject)]
      props ==
        InferProperties(g, mapValue, path, RangeKeys(mapValue, ord.keys),
                        ord, [err |-> FALSE, props |-> <<>>, required |-> <<>>])
  IN  IF props.err THEN Fail
      ELSE Ok(ApplyOverride(
                [base EXCEPT
                   !.Properties =
                     IF DOMAIN mapValue = {} THEN <<>> ELSE <<props.props>>,
                   !.Required = props.required],
                path))

\* case reflect.Map
InferMap(g, value, path, ord) ==
  LET mapValue == value.m
      base ==
        [ZeroSchema EXCEPT
           !.HelmPath = path,
           !.Type =
             IF \E k \in DOMAIN mapValue : KeySuggestsMultipleTypes(k)
             THEN Union(<<TypeObject, TypeString>>)
             ELSE Single(TypeObject)]
      props ==
        InferProperties(g, mapValue, path, RangeKeys(mapValue, ord.keys),
                        ord, [err |-> FALSE, props |-> <<>>, required |-> <<>>])
  IN  IF props.err THEN Fail
      ELSE Ok(ApplyOverride(
                [base EXCEPT
                   !.Properties = <<props.props>>,
                   !.Required = props.required],
                path))

\* default: a kind inferSchema has no case for gets no type
InferUnknown(path) == Ok([ZeroSchema EXCEPT !.HelmPath = path])

inferSchema(g, value, path, ord) ==
  CASE value.kind = "nil" -> InferNil(path)
    [] value.kind = "bool" -> InferBool(g, value, path)
    [] value.kind = "int" -> InferInt(g, value, path)
    [] value.kind = "float" -> InferFloat(g, value, path)
    [] value.kind = "string" -> InferString(g, value, path)
    [] value.kind = "slice" -> InferSlice(g, value, path, ord)
    [] value.kind = "map" -> InferMap(g, value, path, ord)
    [] OTHER -> InferUnknown(path)

\* second loop of the reflect.Map case: `for k, v := range mapValue`
InferProperties(g, mapValue, path, keys, ord, acc) ==
  IF keys = <<>> THEN acc
  ELSE LET k == Head(keys)
           v == mapValue[k]
           propertyPath == path \o <<".">> \o k
           prop == inferSchema(g, v, propertyPath, ord)
       IN  IF prop.err THEN [acc EXCEPT !.err = TRUE]
           ELSE InferProperties(
                  g, mapValue, path, Tail(keys), ord,
                  [acc EXCEPT
                     !.props = (k :> prop.schema[1]) @@ @,
                     !.required = AppendRequired(@, g, k, v)])

InferArrayItemsWithMultipleTypes(g, items, path, ord) ==
  IF hasMixedTypes(items)
  THEN LET typeMap == {TypeMapKey(items[i]) : i \in 1..Len(items)} \ {""}
       IN  Ok([ZeroSchema EXCEPT
                 !.Type = Union(RangeTypeMap(typeMap, ord.tags)),
                 !.HelmPath = path])
  ELSE IF Len(items) > 0
  THEN inferSchema(g, items[1], path \o <<"[", "0", "]">>, ord)
  ELSE Ok([ZeroSchema EXCEPT !.Type = Single(TypeArray), !.HelmPath = path])

(***************************************************************************)
(* schema_generator.go: convertYAMLToStringMap                             *)
(* A result is [err |-> BOOLEAN, val |-> value], Go's (any, error).        *)
(* The loop over a map[any]any returns the first error it meets; whatever  *)
(* the iteration order, it fails iff some entry fails.                     *)
(***************************************************************************)
\* variant: the elements of a sequence are left as decoded
RECURSIVE convertYAMLToStringMapNotInSlices(_)
convertYAMLToStringMapNotInSlices(i) ==
  CASE i.kind = "yamlmap" ->
         LET x == i.ym
             conv == [k \in DOMAIN x |-> convertYAMLToStringMapNotInSlices(x[k])]
         IN  IF \E k \in DOMAIN x : ~k.str \/ conv[k].err
             THEN [err |-> TRUE, val |-> NilValue]
             ELSE [err |-> FALSE,
                   val |-> MapValue(
                     [str \in {k.text : k \in DOMAIN x} |->
                        conv[[str |-> TRUE, text |-> str]].val])]
    [] OTHER -> [err |-> FALSE, val |-> i]

RECURSIVE convertYAMLToStringMap(_)
convertYAMLToStringMap(i) ==
  CASE i.kind = "yamlmap" ->
         LET x == i.ym
             conv == [k \in DOMAIN x |-> convertYAMLToStringMap(x[k])]
         IN  IF \E k \in DOMAIN x : ~k.str \/ conv[k].err
             THEN [err |-> TRUE, val |-> NilValue]
             ELSE [err |-> FALSE,
                   val |-> MapValue(
                     [str \in {k.text : k \in DOMAIN x} |->
                        conv[[str |-> TRUE, text |-> str]].val])]
    [] i.kind = "slice" ->
         LET x == i.elems
             conv == [n \in 1..Len(x) |-> convertYAMLToStringMap(x[n])]
         IN  IF \E n \in 1..Len(x) : conv[n].err
             THEN [err |-> TRUE, val |-> NilValue]
             ELSE [err |-> FALSE,
                   val |-> SliceValue([n \in 1..Len(x) |-> conv[n].val])]
    [] OTHER -> [err |-> FALSE, val |-> i]

(***************************************************************************)
(* schema_generator.go: GenerateFromMap                                    *)
(***************************************************************************)
\* `for key, value := range data` of GenerateFromMap
RECURSIVE InferRootProperties(_, _, _, _, _)
InferRootProperties(g, data, keys, ord, acc) ==
  IF keys = <<>> THEN acc
  ELSE LET key == Head(keys)
           value == data[key]
           prop == inferSchema(g, value, key, ord)
       IN  IF prop.err THEN [acc EXCEPT !.err = TRUE]
           ELSE InferRootProperties(
                  g, data, Tail(keys), ord,
                  [acc EXCEPT
                     !.props = (key :> prop.schema[1]) @@ @,
                     !.required = AppendRequired(@, g, key, value)])

GenerateFromMap(g, data, ord) ==
  LET props ==
        InferRootProperties(g, data, RangeKeys(data, ord.keys), ord,
                            [err |-> FALSE, props |-> <<>>, required |-> <<>>])
  IN  IF props.err THEN Fail
      ELSE Ok([ZeroSchema EXCEPT
                 !.Schema = g.SchemaVersion,
                 !.Title = g.Title,
                 !.Description = g.Description,
                 !.Type = Single(TypeObject),
                 !.Properties = <<props.props>>,
                 !.Required = props.required])

(***************************************************************************)
(* extract_comments.go: CommentExtractor                                   *)
(* The scanner state is the locals of ExtractFromYAML plus e.comments.     *)
(***************************************************************************)
\* NewCommentExtractor and the declarations before the loop
NewScan ==
  [ indentToPath    |-> <<>>,
    pendingComments |-> <<>>,
    topLevelComment |-> <<>>,
    lineIndents     |-> <<>>,
    foundFirstKey   |-> FALSE,
    comments        |-> <<>> ]

\* the text a comment line contributes
CommentText(line) ==
  LET comment == TrimSpace(TrimPrefix(TrimSpace(line), <<"#">>))
  IN  TrimPrefix(TrimPrefix(comment, <<"-", "-", " ">>), <<"-", "-">>)

\* s += "\n" + comment, or s = comment when s is empty
AppendComment(s, comment) ==
  IF s = <<>> THEN comment ELSE s \o <<"\n">> \o comment

IsBlankLine(line) == TrimSpace(line) = <<>>
IsCommentLine(line) == ~IsBlankLine(line) /\ HasPrefix(TrimSpace(line), <<"#">>)
\* indent := len(line) - len(strings.TrimLeft(line, " "))
Indent(line) == Len(line) - Len(TrimLeft(line, {" "}))

\* key := strings.TrimSpace(strings.SplitN(strings.TrimSpace(line), ":", 2)[0])
KeyOf(line) == TrimSpace(SplitN2Head(TrimSpace(line), ":"))

\* variant: the parent level is the first shallower one, not the nearest
ParentLevelShallowest(lineIndents, indent, i) ==
  IF \E j \in 1..Len(lineIndents) : lineIndents[j] < indent
  THEN lineIndents[CHOOSE j \in 1..Len(lineIndents) :
                     /\ lineIndents[j] < indent
                     /\ \A h \in 1..(j - 1) : ~(lineIndents[h] < indent)]
  ELSE -1

\* the loop looking for the parent level, from index i down; -1 when none
RECURSIVE ParentLevel(_, _, _)
ParentLevel(lineIndents, indent, i) ==
  IF i < 1 THEN -1
  ELSE IF lineIndents[i] < indent THEN lineIndents[i]
  ELSE ParentLevel(lineIndents, indent, i - 1)

\* the index of the first level equal to indent, 0 when there is none
FoundAt(lineIndents, indent) ==
  IF \E i \in 1..Len(lineIndents) : lineIndents[i] = indent
  THEN CHOOSE i \in 1..Len(lineIndents) :
         /\ lineIndents[i] = indent
         /\ \A j \in 1..(i - 1) : lineIndents[j] # indent
  ELSE 0

\* the path the key line gets, as a list of keys
CurrentPath(st, line) ==
  LET parentLevel == ParentLevel(st.lineIndents, Indent(line), Len(st.lineIndents))
  IN  (IF parentLevel >= 0 THEN st.indentToPath[parentLevel] ELSE <<>>)
        \o <<KeyOf(line)>>

\* variant: the comment is stored but the buffer is kept
StorePendingKeepBuffer(st, pathStr) ==
  IF st.pendingComments # <<>>
  THEN [st EXCEPT !.comments = (pathStr :> st.pendingComments) @@ @]
  ELSE st

\* `if pendingComments != "" { e.comments[pathStr] = pendingComments; pendingComments = "" }`
StorePending(st, pathStr) ==
  IF st.pendingComments # <<>>
  THEN [st EXCEPT
          !.comments = (pathStr :> st.pendingComments) @@ @,
          !.pendingComments = <<>>]
  ELSE st

\* variant: a line that is neither a comment nor a key line drops the
\* pending comment
ScanLineOtherClears(st, line) ==
  IF IsBlankLine(line) THEN st
  ELSE IF IsCommentLine(line)
  THEN LET comment == CommentText(line)
       IN  [st EXCEPT
              !.topLevelComment =
                IF ~st.foundFirstKey THEN AppendComment(@, comment) ELSE @,
              !.pendingComments = AppendComment(@, comment)]
  ELSE IF Contains(line, <<":">>)
  THEN LET indent == Indent(line)
           currentPath == CurrentPath(st, line)
           at == FoundAt(st.lineIndents, indent)
           pathStr == Join(currentPath, <<".">>)
       IN  StorePending(
             [st EXCEPT
                !.foundFirstKey = TRUE,
                !.lineIndents =
                  IF at # 0 THEN SubSeq(@, 1, at) ELSE Append(@, indent),
                !.indentToPath = (indent :> currentPath) @@ @],
             pathStr)
  ELSE [st EXCEPT !.pendingComments = <<>>]

\* one iteration of the `for scanner.Scan()` loop
ScanLine(st, line) ==
  IF IsBlankLine(line) THEN st
  ELSE IF IsCommentLine(line)
  THEN LET comment == CommentText(line)
       IN  [st EXCEPT
              !.topLevelComment =
                IF ~st.foundFirstKey THEN AppendComment(@, comment) ELSE @,
              !.pendingComments = AppendComment(@, comment)]
  ELSE IF Contains(line, <<":">>)
  THEN LET indent == Indent(line)
           currentPath == CurrentPath(st, line)
           at == FoundAt(st.lineIndents, indent)
           pathStr == Join(currentPath, <<".">>)
       IN  StorePending(
             [st EXCEPT
                !.foundFirstKey = TRUE,
                !.lineIndents =
                  IF at # 0 THEN SubSeq(@, 1, at) ELSE Append(@, indent),
                !.indentToPath = (indent :> currentPath) @@ @],
             pathStr)
  ELSE st

\* the statements after the loop
FinishScan(st) ==
  IF st.topLevelComment # <<>>
  THEN [st EXCEPT !.comments = (<<>> :> st.topLevelComment) @@ @]
  ELSE st

RECURSIVE ScanAll(_, _)
ScanAll(st, lines) ==
  IF lines = <<>> THEN st ELSE ScanAll(ScanLine(st, Head(lines)), Tail(lines))

\* ExtractFromYAML on a fresh extractor: the resulting e.comments
ExtractFromYAML(yamlData) ==
  FinishScan(ScanAll(NewScan, ScanLines(yamlData))).comments

\* GetComment: the zero value "" for an absent path
GetComment(comments, path) ==
  IF path \in DOMAIN comments THEN comments[path] ELSE <<>>

\* variant: a recorded comment replaces the description the node has
RECURSIVE ApplyCommentsOverwriting(_, _)
ApplyCommentsOverwriting(comments, schema) ==
  LET described ==
        IF schema.HelmPath \in DOMAIN comments
        THEN [schema EXCEPT !.Description = comments[schema.HelmPath]]
        ELSE schema
      withProps ==
        IF described.Properties # <<>>
        THEN [described EXCEPT
                !.Properties =
                  <<[k \in DOMAIN described.Properties[1] |->
                       ApplyCommentsOverwriting(comments, described.Properties[1][k])]>>]
        ELSE described
  IN  IF withProps.Items # <<>>
      THEN [withProps EXCEPT
              !.Items = <<ApplyCommentsOverwriting(comments, withProps.Items[1])>>]
      ELSE withProps

RECURSIVE ApplyCommentsToSchema(_, _)
ApplyCommentsToSchema(comments, schema) ==
  LET described ==
        IF schema.HelmPath \in DOMAIN comments /\ schema.Description = <<>>
        THEN [schema EXCEPT !.Description = comments[schema.HelmPath]]
        ELSE schema
      withProps ==
        IF described.Properties # <<>>
        THEN [described EXCEPT
                !.Properties =
                  <<[k \in DOMAIN described.Properties[1] |->
                       ApplyCommentsToSchema(comments, described.Properties[1][k])]>>]
        ELSE described
  IN  IF withProps.Items # <<>>
      THEN [withProps EXCEPT
              !.Items = <<ApplyCommentsToSchema(comments, withProps.Items[1])>>]
      ELSE withProps

(***************************************************************************)
(* schema_generator.go: GenerateFromYAML                                   *)
(* yamlData is [bytes |-> text, decoded |-> [err, data]]: the bytes and    *)
(* what yaml.Unmarshal (gopkg.in/yaml.v2) makes of them.                   *)
(***************************************************************************)
\* variant: the top-level comment replaces a configured description
ApplyDescriptionsOverwrite(comments, schema) ==
  ApplyCommentsToSchema(
    comments,
    IF GetComment(comments, <<>>) # <<>>
    THEN [schema EXCEPT !.Description = GetComment(comments, <<>>)]
    ELSE schema)

\* the check for a top-level comment, then ApplyCommentsToSchema
ApplyDescriptions(comments, schema) ==
  ApplyCommentsToSchema(
    comments,
    IF GetComment(comments, <<>>) # <<>> /\ schema.Description = <<>>
    THEN [schema EXCEPT !.Description = GetComment(comments, <<>>)]
    ELSE schema)

\* GenerateFromYAML from the result of GenerateFromMap on
DescribeGenerated(g, yamlData, gen) ==
  IF gen.err THEN Fail
  ELSE IF g.ExtractDescriptions
  THEN Ok(ApplyDescriptions(ExtractFromYAML(yamlData.bytes), gen.schema[1]))
  ELSE gen

\* GenerateFromYAML from the result of convertYAMLToStringMap on
GenerateFromConverted(g, yamlData, mappedData, ord) ==
  IF mappedData.err THEN Fail
  ELSE IF mappedData.val.kind # "map" THEN Fail
  ELSE DescribeGenerated(g, yamlData, GenerateFromMap(g, mappedData.val.m, ord))

GenerateFromYAML(g, yamlData, ord) ==
  IF yamlData.decoded.err THEN Fail
  ELSE GenerateFromConverted(
         g, yamlData, convertYAMLToStringMap(yamlData.decoded.data), ord)

(***************************************************************************)
(* Inputs: words, paths, option sets                                       *)
(***************************************************************************)
W_a == <<"a">>
W_podLabels == <<"p","o","d","L","a","b","e","l","s">>
W_volumes == <<"v","o","l","u","m","e","s">>
W_selector == <<"s","e","l","e","c","t","o","r">>
W_x == <<"x">>
W_enabled == <<"e","n","a","b","l","e","d">>
W_labels == <<"l","a","b","e","l","s">>
W_port == <<"p","o","r","t">>
W_test == <<"t","e","s","t">>
W_annotations == <<"a","n","n","o","t","a","t","i","o","n","s">>
W_tolerations == <<"t","o","l","e","r","a","t","i","o","n","s">>
W_name == <<"n","a","m","e">>
W_config == <<"c","o","n","f","i","g">>
W_json == <<"j","s","o","n">>
W_resources_limits_cpu ==
  <<"r","e","s","o","u","r","c","e","s",".",
    "l","i","m","i","t","s",".","c","p","u">>
W_resources_limits_memory ==
  <<"r","e","s","o","u","r","c","e","s",".","l",
    "i","m","i","t","s",".","m","e","m","o","r","y">>
W_resources_requests_cpu ==
  <<"r","e","s","o","u","r","c","e","s",".","r",
    "e","q","u","e","s","t","s",".","c","p","u">>
W_resources_requests_memory ==
  <<"r","e","s","o","u","r","c","e","s",".","r","e",
    "q","u","e","s","t","s",".","m","e","m","o","r","y">>
W_tls_secretName ==
  <<"t","l","s",".","s","e","c","r","e","t","N","a","m","e">>
W_service_containerPort ==
  <<"s","e","r","v","i","c","e",".","c","o",
    "n","t","a","i","n","e","r","P","o","r","t">>
W_nodeSelector == <<"n","o","d","e","S","e","l","e","c","t","o","r">>
W_regular_field == <<"r","e","g","u","l","a","r",".","f","i","e","l","d">>
W_xenabled == <<"x","e","n","a","b","l","e","d">>
W_replicas == <<"r","e","p","l","i","c","a","s">>
W_memory == <<"m","e","m","o","r","y">>

Dot(p, k) == p \o <<".">> \o k

\* the upper-case spelling of a path
UpperChar(c) ==
  IF \E i \in 1..Len(LowerChars) : LowerChars[i] = c
  THEN UpperChars[CHOOSE i \in 1..Len(LowerChars) : LowerChars[i] = c]
  ELSE c

ToUpper(s) == [i \in 1..Len(s) |-> UpperChar(s[i])]

\* the four resource fragments
ResourceFragments ==
  { W_resources_limits_cpu, W_resources_limits_memory,
    W_resources_requests_cpu, W_resources_requests_memory }

\* path stems: the paths of the package's tests and their neighbours
PathStems ==
  { W_a, W_x, W_enabled, W_labels, W_port, W_annotations, W_tolerations,
    W_name, W_config, W_json, W_tls_secretName, W_service_containerPort,
    W_nodeSelector, W_regular_field, W_xenabled, W_replicas, W_memory,
    Dot(W_enabled, W_x), Dot(W_a, W_port), W_a \o <<"[", "0", "]">> }
    \cup ResourceFragments
    \cup {Dot(f, W_x) : f \in ResourceFragments}

\* every stem, bare and under a parent key, as written and in upper case
Paths ==
  LET under == PathStems \cup {Dot(W_test, s) : s \in PathStems}
  IN  {<<>>} \cup under \cup {ToUpper(p) : p \in under}

(***************************************************************************)
(* Inputs: value trees.  A tree is generated as the YAML decoder returns   *)
(* it (maps are map[any]any); the trees inferSchema and GenerateFromMap    *)
(* receive are the converted ones.  The size of a tree is its number of    *)
(* nodes.                                                                  *)
(***************************************************************************)
MaxNodes == 4

RawKey(text) == [str |-> TRUE, text |-> text]

\* an integer key, as in `1: x`
IntKey == [str |-> FALSE, text |-> <<"1">>]

StringKeys == <<RawKey(W_a), RawKey(W_port)>>

S_kv == <<"k", ":", " ", "v">>

TreeLeaves == {NilValue, IntValue(42), StringValue(S_kv)}

RECURSIVE TreesOfSize(_, _, _)
RECURSIVE ElemsOfTotal(_, _, _)
RECURSIVE EntriesOfTotal(_, _, _, _)

\* the trees of exactly n nodes with map keys among keys and the given leaves
TreesOfSize(n, keys, leaves) ==
  (IF n = 1 THEN leaves ELSE {})
    \cup {SliceValue(e) : e \in ElemsOfTotal(n - 1, keys, leaves)}
    \cup {YamlMapValue(m) : m \in EntriesOfTotal(n - 1, 1, keys, leaves)}

\* the sequences of trees of t nodes in all
ElemsOfTotal(t, keys, leaves) ==
  IF t = 0 THEN {<<>>}
  ELSE UNION {{<<v>> \o e : v \in TreesOfSize(n, keys, leaves),
                            e \in ElemsOfTotal(t - n, keys, leaves)} :
              n \in 1..t}

\* the maps over some of keys[i..] whose values have t nodes in all
EntriesOfTotal(t, i, keys, leaves) ==
  IF i > Len(keys) THEN (IF t = 0 THEN {<<>>} ELSE {})
  ELSE EntriesOfTotal(t, i + 1, keys, leaves)
         \cup UNION {{(keys[i] :> v) @@ m :
                        v \in TreesOfSize(n, keys, leaves),
                        m \in EntriesOfTotal(t - n, i + 1, keys, leaves)} :
                     n \in 1..t}

TreesUpTo(n, keys, leaves) == UNION {TreesOfSize(k, keys, leaves) : k \in 1..n}

\* the value trees handed to inferSchema and GenerateFromMap
TreeValues(n) ==
  {convertYAMLToStringMap(t).val : t \in TreesUpTo(n, StringKeys, TreeLeaves)}

S_dash == <<"-">>
S_braces == <<"{", "}">>
S_date == <<"2","0","2","3","-","1","0","-","1","5">>
S_email == <<"u","@","e",".","c">>
S_uri == <<"h","t","t","p",":","/","/","e",".","c">>
S_comment == <<"#", " ", "k", ":", " ", "v">>
S_commented == <<"#", "c", "\n", " ", "k", ":">>
S_datetime ==
  <<"2","0","2","3","-","1","0","-","1","5","T","1","4",".","3","0",".","0","0">>
S_dated_email == <<"a","@","b",".","-","c","c","-","d","d">>
S_https == <<"h","t","t","p","s",":","/","/","e","\n","#","x">>

Scalars ==
  { NilValue, BoolValue(TRUE), BoolValue(FALSE), IntValue(42), UintValue(7),
    FloatValue(<<"3", ".", "1", "4">>),
    StringValue(W_x), StringValue(S_dash), StringValue(S_kv),
    StringValue(S_braces), StringValue(S_date), StringValue(S_email),
    StringValue(S_uri), StringValue(S_comment), StringValue(S_commented),
    StringValue(S_datetime), StringValue(S_dated_email),
    StringValue(S_https) }

\* the paths inferSchema is called at
InferPaths ==
  { W_a, W_name, W_regular_field, W_xenabled, W_enabled, Dot(W_test, W_enabled),
    ToUpper(W_enabled), W_labels, W_port, W_tolerations, W_config,
    W_resources_requests_memory, Dot(W_test, W_resources_limits_memory) }

\* the paths containers (and the scalars among the trees) are inferred at
ContainerPaths == {W_a, W_port, W_labels, W_enabled}

(***************************************************************************)
(* The iteration orders of one run.  Any order a single `range` can take   *)
(* is the restriction of one of these.                                     *)
(***************************************************************************)
RECURSIVE Perms(_)
Perms(S) ==
  IF S = {} THEN {<<>>}
  ELSE UNION {{<<x>> \o q : q \in Perms(S \ {x})} : x \in S}

RECURSIVE KeysIn(_)
KeysIn(v) ==
  CASE v.kind = "map" ->
         DOMAIN v.m \cup UNION {KeysIn(v.m[k]) : k \in DOMAIN v.m}
    [] v.kind = "slice" -> UNION {KeysIn(v.elems[i]) : i \in 1..Len(v.elems)}
    [] OTHER -> {}

RECURSIVE TagsIn(_)
TagsIn(v) ==
  CASE v.kind = "map" -> UNION {TagsIn(v.m[k]) : k \in DOMAIN v.m}
    [] v.kind = "slice" ->
         (IF hasMixedTypes(v.elems)
          THEN {TypeMapKey(v.elems[i]) : i \in 1..Len(v.elems)} ELSE {})
           \cup UNION {TagsIn(v.elems[i]) : i \in 1..Len(v.elems)}
    [] OTHER -> {}

Orders(v) ==
  {[keys |-> ks, tags |-> ts] : ks \in Perms(KeysIn(v)), ts \in Perms(TagsIn(v))}

(***************************************************************************)
(* YAML documents.  yaml.Unmarshal (gopkg.in/yaml.v2) is the library's: a  *)
(* document is the pair of its bytes and of what Unmarshal makes of them,  *)
(* [err |-> TRUE] or the decoded tree, whose mappings are map[any]any.     *)
(* The bytes are the tree written out: mappings in block style, one key    *)
(* per line, nested by two spaces; sequences, empty mappings and scalars   *)
(* in flow style; strings single-quoted.                                   *)
(***************************************************************************)
YamlKeys == <<RawKey(W_a), RawKey(W_port), IntKey>>

\* a natural number in decimal
RECURSIVE IntText(_)
IntText(n) ==
  LET digit == <<"0", "1", "2", "3", "4", "5", "6", "7", "8", "9">>[(n % 10) + 1]
  IN  IF n < 10 THEN <<digit>> ELSE IntText(n \div 10) \o <<digit>>

RECURSIVE RenderFlow(_)
RECURSIVE RenderFlowElems(_)
RECURSIVE RenderFlowEntries(_, _)
RenderFlow(v) ==
  CASE v.kind = "nil" -> <<"n", "u", "l", "l">>
    [] v.kind = "int" -> IntText(v.n)
    [] v.kind = "string" -> <<"'">> \o v.s \o <<"'">>
    [] v.kind = "slice" -> <<"[">> \o RenderFlowElems(v.elems) \o <<"]">>
    [] v.kind = "yamlmap" -> <<"{">> \o RenderFlowEntries(v.ym, 1) \o <<"}">>

RenderFlowElems(elems) ==
  IF elems = <<>> THEN <<>>
  ELSE RenderFlow(Head(elems))
         \o (IF Len(elems) > 1 THEN <<",", " ">> ELSE <<>>)
         \o RenderFlowElems(Tail(elems))

RenderFlowEntries(ym, i) ==
  IF i > Len(YamlKeys) THEN <<>>
  ELSE (IF YamlKeys[i] \in DOMAIN ym
        THEN YamlKeys[i].text \o <<":", " ">> \o RenderFlow(ym[YamlKeys[i]])
               \o (IF \E j \in (i + 1)..Len(YamlKeys) : YamlKeys[j] \in DOMAIN ym
                   THEN <<",", " ">> ELSE <<>>)
        ELSE <<>>)
         \o RenderFlowEntries(ym, i + 1)

Spaces(n) == [i \in 1..n |-> " "]

\* the block of a non-empty mapping at an indentation; with commented, each
\* key line is preceded by a comment line holding the key
RECURSIVE RenderBlock(_, _, _, _)
RenderBlock(ym, indent, commented, i) ==
  IF i > Len(YamlKeys) THEN <<>>
  ELSE (IF YamlKeys[i] \in DOMAIN ym
        THEN LET k == YamlKeys[i]
                 v == ym[k]
             IN  (IF commented
                  THEN Spaces(indent) \o <<"#", " ">> \o k.text \o <<"\n">>
                  ELSE <<>>)
                   \o Spaces(indent) \o k.text \o <<":">>
                   \o (IF v.kind = "yamlmap" /\ DOMAIN v.ym # {}
                       THEN <<"\n">> \o RenderBlock(v.ym, indent + 2, commented, 1)
                       ELSE <<" ">> \o RenderFlow(v) \o <<"\n">>)
        ELSE <<>>)
         \o RenderBlock(ym, indent, commented, i + 1)

\* the header comment of a commented values file
HeaderLine == <<"#", " ", "-", "-", " ", "t", "o", "p", "\n">>

\* the document of a tree, with or without comments
Document(tree, commented) ==
  [ bytes |->
      (IF commented THEN HeaderLine ELSE <<>>)
        \o (IF tree.kind = "yamlmap" /\ DOMAIN tree.ym # {}
            THEN RenderBlock(tree.ym, 0, commented, 1)
            ELSE RenderFlow(tree) \o <<"\n">>),
    decoded |-> [err |-> FALSE, data |-> tree] ]

\* the empty document decodes to nil
EmptyDocument == [bytes |-> <<>>, decoded |-> [err |-> FALSE, data |-> NilValue]]

\* documents Unmarshal rejects: "a: [" and "a: b: c"
BrokenDocuments ==
  { [bytes |-> <<"a", ":", " ", "[", "\n">>,
     decoded |-> [err |-> TRUE, data |-> NilValue]],
    [bytes |-> <<"a", ":", " ", "b", ":", " ", "c", "\n">>,
     decoded |-> [err |-> TRUE, data |-> NilValue]] }

\* headers of several comment lines: `# t`, a blank line, `# v`; and a bare
\* `#` followed by `# t`
Headers ==
  { <<"#", " ", "t", "\n", "\n", "#", " ", "v", "\n">>,
    <<"#", "\n", "#", " ", "t", "\n">> }

\* the documents of the small trees under each of these headers
HeadedDocuments ==
  { [Document(t, FALSE) EXCEPT !.bytes = h \o @] :
      t \in TreesUpTo(2, YamlKeys, TreeLeaves), h \in Headers }

\* a commented document whose key is written in double quotes:
\* `# t`, `"a": 42`
QuotedDocuments ==
  { [ bytes |-> <<"#", " ", "t", "\n",
                  "\"", "a", "\"", ":", " ", "4", "2", "\n">>,
      decoded |-> [err |-> FALSE,
                   data |-> [kind |-> "yamlmap",
                             ym |-> (RawKey(W_a) :> IntValue(42))]] ] }

Documents(n) ==
  {Document(t, c) : t \in TreesUpTo(n, YamlKeys, TreeLeaves), c \in BOOLEAN}
    \cup HeadedDocuments \cup QuotedDocuments
    \cup {EmptyDocument} \cup BrokenDocuments

(***************************************************************************)
(* json_schema.go: GeneratorOptions                                        *)
(***************************************************************************)
\* SchemaVersion and Title are only copied, never inspected: plain strings
Draft07 == "http://json-schema.org/draft-07/schema#"

DefaultOptions ==
  [ SchemaVersion        |-> Draft07,
    Title                |-> "Helm Values Schema",
    Description          |-> <<>>,
    RequireByDefault     |-> FALSE,
    IncludeExamples      |-> TRUE,
    ExtractDescriptions  |-> TRUE,
    UseFullyQualifiedIDs |-> FALSE,
    Debug                |-> FALSE ]

(***************************************************************************)
(* State: the operation in progress (pc), the Generator it runs on (g),    *)
(* its arguments (args) and what it returned (ret).  scan, lines and       *)
(* lineNum are the comment extractor's scanner between two lines.          *)
(* globalLogger is the package variable of package logging; runs are the   *)
(* goroutines the caller has started, each with its own locals.            *)
(***************************************************************************)
VARIABLES pc, g, args, ret, scan, lines, lineNum, globalLogger, runs

vars == <<pc, g, args, ret, scan, lines, lineNum, globalLogger, runs>>

(***************************************************************************)
(* package logging.  A *slog.Logger is <<>> (nil) or <<n>>, n the          *)
(* goroutine whose slog.New made the instance: 0 is the caller's           *)
(* goroutine, 1..NumRuns are the runs.                                     *)
(***************************************************************************)
NumRuns == 2

Runs == 1..NumRuns

Main == 0

\* GetLogger run by one goroutine while no other runs: globalLogger after
\* the call, which is also the logger returned
GetLogger(current, goroutine) ==
  IF current = <<>> THEN <<goroutine>> ELSE current

\* a goroutine that has not been started
IdleRun ==
  [ pc       |-> "idle",
    value    |-> NilValue,
    calls    |-> 0,
    logger   |-> <<>>,
    returned |-> {},
    read     |-> FALSE,
    wrote    |-> FALSE,
    ret      |-> <<>> ]

Init ==
  /\ pc = "idle"
  /\ g = DefaultOptions
  /\ args = <<>>
  /\ ret = <<>>
  /\ scan = NewScan
  /\ lines = <<>>
  /\ lineNum = 0
  /\ globalLogger = <<>>
  /\ runs = [r \in Runs |-> IdleRun]

\* the caller takes the result; the next call starts from scratch
Return ==
  /\ pc \notin {"idle", "scanning", "running"}
  /\ pc' = "idle"
  /\ g' = DefaultOptions
  /\ args' = <<>>
  /\ ret' = <<>>
  /\ scan' = NewScan
  /\ lines' = <<>>
  /\ lineNum' = 0
  /\ runs' = [r \in Runs |-> IdleRun]
  /\ UNCHANGED globalLogger

(***************************************************************************)
(* SpecLookup: calls of shouldSupportMultipleTypes                         *)
(***************************************************************************)
CallShouldSupportMultipleTypes ==
  /\ pc = "idle"
  /\ \E p \in Paths :
       /\ args' = [path |-> p]
       /\ ret' = shouldSupportMultipleTypes(p)
  /\ pc' = "shouldSupportMultipleTypes"
  /\ UNCHANGED <<g, scan, lines, lineNum, globalLogger, runs>>

NextLookup == CallShouldSupportMultipleTypes \/ Return

SpecLookup == Init /\ [][NextLookup]_vars

\* the rules of the table that have a fragment matching the lower-cased path
\* pl: by substring for "contains", by equality or as a last dotted segment
\* for "exact-or-suffix"
RuleHasMatchingFragment(i, pl) ==
  \E j \in 1..Len(PatternMappings[i].patterns) :
    LET f == PatternMappings[i].patterns[j]
    IN  IF PatternMappings[i].matchType = "contains" THEN Contains(pl, f)
        ELSE pl = f \/ HasSuffix(pl, <<".">> \o f)

MatchingRules(path) ==
  {i \in 1..Len(PatternMappings) : RuleHasMatchingFragment(i, ToLower(path))}

C4_ResourcePathsAreStringIntegerNumber ==
  (/\ pc = "shouldSupportMultipleTypes"
   /\ \E f \in ResourceFragments : Contains(args.path, f))
    => ret = [matched |-> TRUE,
              types |-> <<TypeString, TypeInteger, TypeNumber>>]

(***************************************************************************)
(* Spec: calls of inferSchema and GenerateFromMap                          *)
(***************************************************************************)
\* the option sets the inferrer reads: IncludeExamples and RequireByDefault
InferGenerators ==
  { [DefaultOptions EXCEPT !.IncludeExamples = TRUE, !.RequireByDefault = FALSE],
    [DefaultOptions EXCEPT !.IncludeExamples = FALSE, !.RequireByDefault = TRUE] }

\* scalars are inferred at every path of InferPaths, containers at ContainerPaths
\* mappings with a key of the key heuristic, in either case, and without
HeuristicMaps ==
  {MapValue(k :> NilValue) : k \in {W_podLabels, W_volumes, W_name}}
    \cup {MapValue((W_name :> IntValue(42)) @@ (W_selector :> NilValue))}

InferCalls ==
  {<<v, p>> : v \in Scalars, p \in InferPaths}
    \cup {<<v, p>> : v \in TreeValues(MaxNodes - 1), p \in ContainerPaths}
    \cup {<<v, W_a>> : v \in HeuristicMaps}

CallInferSchema ==
  /\ pc = "idle"
  /\ \E gen \in InferGenerators, c \in InferCalls :
       \E ord \in Orders(c[1]) :
         /\ g' = gen
         /\ args' = [value |-> c[1], path |-> c[2]]
         /\ ret' = inferSchema(gen, c[1], c[2], ord)
  /\ pc' = "inferSchema"
  /\ globalLogger' = GetLogger(globalLogger, Main)
  /\ UNCHANGED <<scan, lines, lineNum, runs>>

CallGenerateFromMap ==
  /\ pc = "idle"
  /\ \E gen \in InferGenerators, v \in TreeValues(MaxNodes) :
       /\ v.kind = "map"
       /\ \E ord \in Orders(v) :
            /\ g' = gen
            /\ args' = [data |-> v.m]
            /\ ret' = GenerateFromMap(gen, v.m, ord)
            /\ globalLogger' = IF DOMAIN v.m = {} THEN globalLogger
                               ELSE GetLogger(globalLogger, Main)
  /\ pc' = "GenerateFromMap"
  /\ UNCHANGED <<scan, lines, lineNum, runs>>

\* the option sets GenerateFromYAML runs under
YamlGenerators ==
  { [DefaultOptions EXCEPT !.ExtractDescriptions = TRUE],
    [DefaultOptions EXCEPT
       !.ExtractDescriptions = TRUE,
       !.Description = <<"d">>],
    [DefaultOptions EXCEPT
       !.ExtractDescriptions = FALSE,
       !.IncludeExamples = FALSE,
       !.RequireByDefault = TRUE] }

\* the value GenerateFromMap gets from a document, nil when it gets none
Converted(yamlData) ==
  IF yamlData.decoded.err THEN NilValue
  ELSE convertYAMLToStringMap(yamlData.decoded.data).val

CallGenerateFromYAML ==
  /\ pc = "idle"
  /\ \E gen \in YamlGenerators, yamlData \in Documents(MaxNodes) :
       \E ord \in Orders(Converted(yamlData)) :
         /\ g' = gen
         /\ args' = [yamlData |-> yamlData]
         /\ ret' = GenerateFromYAML(gen, yamlData, ord)
  /\ pc' = "GenerateFromYAML"
  /\ globalLogger' = GetLogger(globalLogger, Main)
  /\ UNCHANGED <<scan, lines, lineNum, runs>>

Next == CallInferSchema \/ CallGenerateFromMap \/ CallGenerateFromYAML \/ Return

Spec == Init /\ [][Next]_vars

(***************************************************************************)
(* Claims about inferSchema                                                *)
(***************************************************************************)
\* the kinds of value the type rules speak of
ListedKinds == {"nil", "bool", "int", "float", "string", "slice", "map"}

\* the type list of the first rule that matches path
RuleTypes(path) == shouldSupportMultipleTypes(path).types

ScalarTag(kind) ==
  CASE kind = "bool" -> TypeBoolean
    [] kind = "int" -> TypeInteger
    [] kind = "float" -> TypeNumber
    [] kind = "string" -> TypeString

\* the content of s looks like serialized YAML or JSON: trimmed, it is wrapped
\* in braces or brackets, or some line of it has a ':' and does not start,
\* after its leading white space, with '#'
LooksSerialized(s) ==
  LET t == TrimSpace(s)
      LineStart(i) ==
        CHOOSE b \in 0..(i - 1) :
          /\ b = 0 \/ t[b] = "\n"
          /\ \A j \in (b + 1)..(i - 1) : t[j] # "\n"
      FirstInk(b) ==
        CHOOSE j \in (b + 1)..Len(t) :
          /\ t[j] \notin WhiteSpace \/ t[j] = "\n"
          /\ \A h \in (b + 1)..(j - 1) : t[h] \in WhiteSpace /\ t[h] # "\n"
  IN  \/ t # <<>> /\ t[1] = "{" /\ t[Len(t)] = "}"
      \/ t # <<>> /\ t[1] = "[" /\ t[Len(t)] = "]"
      \/ \E i \in 1..Len(t) : t[i] = ":" /\ t[FirstInk(LineStart(i))] # "#"

\* C3 as stated: for every scalar value (bool, int, float or string, whatever
\* its content) at a path no pattern rule matches, inferSchema returns a
\* single tag, not a list: boolean, integer, number or string by kind.
C3_ScalarSingleTagWhateverContent ==
  (/\ pc = "inferSchema"
   /\ args.value.kind \in {"bool", "int", "float", "string"}
   /\ MatchingRules(args.path) = {})
    => /\ ~ret.err
       /\ ret.schema[1].Type =
            [k |-> "single", tags |-> <<ScalarTag(args.value.kind)>>]

\* C3: for every scalar value (bool, int, float or string) at a path no
\* pattern rule matches, inferSchema returns a single tag, not a list:
\* boolean, integer, number or string by kind, except for a string whose
\* content looks like serialized YAML or JSON, which gets the list
\* [string, object].
C3_ScalarSingleTagUnlessSerialized ==
  (/\ pc = "inferSchema"
   /\ args.value.kind \in {"bool", "int", "float", "string"}
   /\ MatchingRules(args.path) = {})
    => /\ ~ret.err
       /\ ret.schema[1].Type =
            IF args.value.kind = "string" /\ LooksSerialized(args.value.s)
            THEN [k |-> "list", tags |-> <<TypeString, TypeObject>>]
            ELSE [k |-> "single", tags |-> <<ScalarTag(args.value.kind)>>]

\* a string holding only a commented-out key: value line stays a plain string
C3_Witness ==
  /\ pc = "inferSchema"
  /\ args.value = StringValue(S_comment)
  /\ args.path = W_regular_field
  /\ ret.schema[1].Type = [k |-> "single", tags |-> <<TypeString>>]

(***************************************************************************)
(* Claims about the schema tree of one run                                 *)
(***************************************************************************)
\* the pairs <<source value, node>> of the tree s inferred from v: the node
\* itself, its properties with the values of their keys, and the items
\* inferred from the first element of a homogeneous sequence
RECURSIVE Inferred(_, _)
Inferred(v, s) ==
  {<<v, s>>}
    \cup (IF v.kind = "map" /\ s.Properties # <<>>
          THEN UNION {Inferred(v.m[k], s.Properties[1][k]) :
                        k \in DOMAIN v.m \cap DOMAIN s.Properties[1]}
          ELSE {})
    \cup (IF /\ v.kind = "slice"
             /\ Len(v.elems) > 0
             /\ ~hasMixedTypes(v.elems)
             /\ s.Items # <<>>
          THEN Inferred(v.elems[1], s.Items[1])
          ELSE {})

\* the items nodes synthesised for the mixed-type sequences of the tree
MixedItems(v, s) ==
  {p[2].Items[1] : p \in {q \in Inferred(v, s) :
                            /\ q[1].kind = "slice"
                            /\ hasMixedTypes(q[1].elems)
                            /\ q[2].Items # <<>>}}

\* the set of tags of a Type, single tag or list
TypeTags(T) == {T.tags[i] : i \in 1..Len(T.tags)}

\* the run has returned a schema tree
RunReturnedTree == pc \in {"GenerateFromMap", "GenerateFromYAML"} /\ ~ret.err

\* the root value of the run and the root node it returned
RunValue ==
  IF pc = "GenerateFromMap" THEN MapValue(args.data)
  ELSE Converted(args.yamlData)
RunRoot == ret.schema[1]

\* C6 as stated: in every schema tree returned, each node has a non-nil
\* Properties map if and only if its type (single tag or list) contains
\* object.
C6_PropertiesIffObjectTag ==
  RunReturnedTree =>
    \A n \in {p[2] : p \in Inferred(RunValue, RunRoot)}
               \cup MixedItems(RunValue, RunRoot) :
      (n.Properties # <<>>) <=> (TypeObject \in TypeTags(n.Type))

\* C6: in every schema tree returned, a node has a non-nil Properties map if
\* and only if it was inferred from a mapping, the root included; an empty
\* mapping yields an initialised, empty Properties map, and the root is of
\* type object.  For a node inferred from a value that is not a string, at a
\* path no pattern rule matches, that is the same as its type containing
\* object.  The items node of a mixed-type sequence has no Properties.
C6_PropertiesIffMapping ==
  RunReturnedTree =>
    /\ RunRoot.Type = [k |-> "single", tags |-> <<TypeObject>>]
    /\ \A p \in Inferred(RunValue, RunRoot) :
         /\ (p[2].Properties # <<>>) <=> (p[1].kind = "map")
         /\ (p[1].kind = "map" /\ DOMAIN p[1].m = {})
              => p[2].Properties = << <<>> >>
         /\ (p[1].kind # "string" /\ MatchingRules(p[2].HelmPath) = {})
              => ((p[2].Properties # <<>>)
                    <=> (TypeObject \in TypeTags(p[2].Type)))
    /\ \A n \in MixedItems(RunValue, RunRoot) : n.Properties = <<>>

\* a nested empty mapping, of type object with empty Properties, next to a
\* mapping whose Properties are set although the pattern rule of its path
\* left no object tag
C6_Witness ==
  /\ RunReturnedTree
  /\ \E p, q \in Inferred(RunValue, RunRoot) :
       /\ p[1] = MapValue(<<>>)
       /\ p[2].HelmPath = W_a
       /\ p[2].Type = [k |-> "single", tags |-> <<TypeObject>>]
       /\ p[2].Properties = << <<>> >>
       /\ q[1].kind = "map"
       /\ q[2].Properties # <<>>
       /\ TypeObject \notin TypeTags(q[2].Type)

\* C7 as stated: in every schema tree returned, each node has a non-nil Items
\* schema if and only if its type contains array and the source value was a
\* non-empty sequence.
C7_ItemsIffArrayTagAndNonEmpty ==
  RunReturnedTree =>
    \A p \in Inferred(RunValue, RunRoot) :
      (p[2].Items # <<>>)
        <=> (/\ TypeArray \in TypeTags(p[2].Type)
             /\ p[1].kind = "slice"
             /\ Len(p[1].elems) > 0)

\* C7: in every schema tree returned, a node has a non-nil Items schema if
\* and only if its source value was a non-empty sequence; an empty sequence
\* yields a node without Items, and the items node of a mixed-type sequence
\* has none.  The type of a node inferred from a sequence contains array
\* when no pattern rule matches the node's path.
C7_ItemsIffNonEmptySequence ==
  RunReturnedTree =>
    /\ \A p \in Inferred(RunValue, RunRoot) :
         /\ (p[2].Items # <<>>)
              <=> (p[1].kind = "slice" /\ Len(p[1].elems) > 0)
         /\ (p[1].kind = "slice" /\ MatchingRules(p[2].HelmPath) = {})
              => TypeArray \in TypeTags(p[2].Type)
    /\ \A n \in MixedItems(RunValue, RunRoot) : n.Items = <<>>

\* an empty sequence without Items next to a non-empty sequence whose Items
\* are set although the pattern rule of its path left no array tag
C7_Witness ==
  /\ RunReturnedTree
  /\ \E p, q \in Inferred(RunValue, RunRoot) :
       /\ p[1] = SliceValue(<<>>)
       /\ p[2].Items = <<>>
       /\ TypeArray \in TypeTags(p[2].Type)
       /\ q[1].kind = "slice"
       /\ q[2].Items # <<>>
       /\ TypeArray \notin TypeTags(q[2].Type)

\* the nodes of the tree s as pairs <<position, HelmPath>>; a position is the
\* sequence of property keys and items steps leading to the node
RECURSIVE NodesAt(_, _)
NodesAt(s, pos) ==
  {<<pos, s.HelmPath>>}
    \cup (IF s.Properties # <<>>
          THEN UNION {NodesAt(s.Properties[1][k], Append(pos, k)) :
                        k \in DOMAIN s.Properties[1]}
          ELSE {})
    \cup (IF s.Items # <<>>
          THEN NodesAt(s.Items[1], Append(pos, <<"items">>))
          ELSE {})

\* C8: within one inference run, no two distinct nodes of the resulting
\* schema tree (root, properties at any depth, array items, items of
\* mixed-type arrays) have the same HelmPath.
C8_HelmPathsAreUnique ==
  RunReturnedTree =>
    \A a, b \in NodesAt(RunRoot, <<>>) : a[2] = b[2] => a[1] = b[1]

\* the elements of a sequence, as a set
Elements(seq) == {seq[i] : i \in 1..Len(seq)}

RECURSIVE HasNonStringKey(_)
HasNonStringKey(t) ==
  CASE t.kind = "yamlmap" ->
         \E k \in DOMAIN t.ym : ~k.str \/ HasNonStringKey(t.ym[k])
    [] t.kind = "slice" ->
         \E i \in 1..Len(t.elems) : HasNonStringKey(t.elems[i])
    [] OTHER -> FALSE

\* C5: GenerateFromYAML returns either (schema, nil) or (nil, error), never a
\* schema together with an error; it fails exactly when the YAML does not
\* parse, when some mapping anywhere in the decoded tree has a non-string
\* key, or when the decoded root is not a mapping (an empty document
\* included), and returns a schema in every other case.
C5_FailsExactlyOnBadDocuments ==
  pc = "GenerateFromYAML" =>
    LET decoded == args.yamlData.decoded
    IN  /\ ret.err <=> \/ decoded.err
                       \/ HasNonStringKey(decoded.data)
                       \/ decoded.data.kind # "yamlmap"
        /\ ret.err => ret.schema = <<>>
        /\ ~ret.err => Len(ret.schema) = 1

\* a document that parses, whose root is a mapping with string keys only,
\* fails on a non-string key of a mapping inside a sequence
C5_Witness ==
  /\ pc = "GenerateFromYAML"
  /\ ~args.yamlData.decoded.err
  /\ args.yamlData.decoded.data.kind = "yamlmap"
  /\ \A k \in DOMAIN args.yamlData.decoded.data.ym : k.str
  /\ \E k \in DOMAIN args.yamlData.decoded.data.ym :
       /\ args.yamlData.decoded.data.ym[k].kind = "slice"
       /\ HasNonStringKey(args.yamlData.decoded.data.ym[k])
  /\ ret = Fail

(***************************************************************************)
(* SpecExtract: ExtractFromYAML, one line of the scanner at a time         *)
(***************************************************************************)
MaxLines == 4

L_blank == <<" ">>
L_comment == <<"#", " ", "c">>
L_marked == <<" ", " ", "#", " ", "-", "-", " ", "d">>
L_bare == <<"#">>
L_key == <<"a", ":", " ", "1", " ", "#", " ", "n">>
L_nested == <<" ", " ", "b", ":">>
L_item == <<"-", " ", "x">>

\* the lines values files are made of
LineAlphabet == {L_blank, L_comment, L_marked, L_bare, L_key, L_nested, L_item}

RECURSIVE LineSeqs(_)
LineSeqs(n) ==
  IF n = 0 THEN {<<>>}
  ELSE LineSeqs(n - 1)
         \cup {Append(q, l) : q \in {r \in LineSeqs(n - 1) : Len(r) = n - 1},
                              l \in LineAlphabet}

\* the bytes of a file of these lines, each ended by a newline
FileOf(ls) == Join(ls, <<"\n">>) \o (IF ls = <<>> THEN <<>> ELSE <<"\n">>)

\* ExtractFromYAML is entered: NewScanner, the declarations before the loop
CallExtractFromYAML ==
  /\ pc = "idle"
  /\ \E ls \in LineSeqs(MaxLines) :
       /\ args' = [yamlData |-> FileOf(ls)]
       /\ lines' = ScanLines(FileOf(ls))
  /\ scan' = NewScan
  /\ lineNum' = 0
  /\ pc' = "scanning"
  /\ UNCHANGED <<g, ret, globalLogger, runs>>

\* one iteration of the loop: scanner.Scan() has a line
ScanStep ==
  /\ pc = "scanning"
  /\ lineNum < Len(lines)
  /\ lineNum' = lineNum + 1
  /\ scan' = ScanLine(scan, lines[lineNum + 1])
  /\ UNCHANGED <<pc, g, args, ret, lines, globalLogger, runs>>

\* scanner.Scan() is at the end: the statements after the loop
FinishExtract ==
  /\ pc = "scanning"
  /\ lineNum = Len(lines)
  /\ scan' = FinishScan(scan)
  /\ ret' = FinishScan(scan).comments
  /\ pc' = "extracted"
  /\ UNCHANGED <<g, args, lines, lineNum, globalLogger, runs>>

NextExtract == CallExtractFromYAML \/ ScanStep \/ FinishExtract \/ Return

SpecExtract == Init /\ [][NextExtract]_vars

(***************************************************************************)
(* Claims about ExtractFromYAML                                            *)
(***************************************************************************)
\* the comment lines of the alphabet and the text each of them carries
CommentTextOf ==
  (L_comment :> <<"c">>) @@ (L_marked :> <<"d">>) @@ (L_bare :> <<>>)

\* the lines of the alphabet that hold a key
KeyLines == {L_key, L_nested}

\* the indices of the key lines among the first n lines, and the last of
\* them before line j (0 when there is none)
KeysUpTo(n) == {j \in 1..n : lines[j] \in KeyLines}
PrevKey(j) ==
  IF KeysUpTo(j - 1) = {} THEN 0
  ELSE CHOOSE k \in KeysUpTo(j - 1) : \A h \in KeysUpTo(j - 1) : h <= k

\* the texts of the comment lines after line lo, up to line hi, in order
RunTexts(lo, hi) ==
  LET idx == SelectSeq([k \in 1..(hi - lo) |-> lo + k],
                       LAMBDA i : lines[i] \in DOMAIN CommentTextOf)
  IN  [k \in 1..Len(idx) |-> CommentTextOf[lines[idx[k]]]]

\* texts joined by newlines
PlainJoined(texts) == Join(texts, <<"\n">>)

\* texts joined by newlines, the empty texts at the head skipped
RECURSIVE Joined(_)
Joined(texts) ==
  IF texts = <<>> THEN <<>>
  ELSE IF Head(texts) = <<>> THEN Joined(Tail(texts))
  ELSE PlainJoined(texts)

\* the path of the key line j
PathAt(j) ==
  Join(CurrentPath(ScanAll(NewScan, SubSeq(lines, 1, j - 1)), lines[j]), <<".">>)

\* C10 as stated: each run of own-line comment lines is stored, its texts
\* joined by newlines, under the path of the next key line, blank lines
\* neither breaking nor resetting it; the buffer is cleared at that moment,
\* so every comment line is attached to exactly one key path; an inline
\* trailing comment is never captured.
C10_EveryRunStoredUnderNextKey ==
  /\ (pc = "scanning" /\ lineNum \in KeysUpTo(lineNum))
       => scan.pendingComments = <<>>
  /\ pc = "extracted" =>
       /\ \A j \in KeysUpTo(Len(lines)) :
            LET texts == RunTexts(PrevKey(j), j)
            IN  IF texts # <<>>
                THEN /\ PathAt(j) \in DOMAIN scan.comments
                     /\ scan.comments[PathAt(j)] = PlainJoined(texts)
                ELSE \/ PathAt(j) \notin DOMAIN scan.comments
                     \/ \E h \in KeysUpTo(j - 1) : PathAt(h) = PathAt(j)
       /\ \A i \in 1..Len(lines) :
            lines[i] \in DOMAIN CommentTextOf
              => \E j \in KeysUpTo(Len(lines)) : j > i

\* C10: each run of own-line comment lines is stored under the path of the
\* next key line when there is one, blank lines and lines that are neither
\* comment nor key neither breaking nor resetting it: the stored text is the
\* comment texts ('#' and an optional '--' marker stripped) joined by
\* newlines, the empty texts at the head of the run skipped, and nothing is
\* stored when that leaves nothing.  The buffer is cleared at that moment, so
\* no comment line is attached to two key paths.  A later key line of the
\* same path replaces the entry, a run after the last key line is attached
\* to none, and the lines before the first key line are also stored as the
\* top-level entry "".  An inline trailing comment is never captured.
C10_RunsStoredUnderNextKey ==
  pc \in {"scanning", "extracted"} =>
    LET keys == KeysUpTo(lineNum)
        stored(j) == Joined(RunTexts(PrevKey(j), j))
        storing == {j \in keys : stored(j) # <<>>}
        top == Joined(RunTexts(0, IF keys = {} THEN lineNum
                                  ELSE CHOOSE j \in keys : PrevKey(j) = 0))
        hasTop == pc = "extracted" /\ top # <<>>
    IN  /\ scan.pendingComments = Joined(RunTexts(PrevKey(lineNum + 1), lineNum))
        /\ DOMAIN scan.comments =
             {PathAt(j) : j \in storing} \cup (IF hasTop THEN {<<>>} ELSE {})
        /\ \A j \in storing :
             (\A h \in storing : h > j => PathAt(h) # PathAt(j))
               => scan.comments[PathAt(j)] = stored(j)
        /\ hasTop => scan.comments[<<>>] = top
        /\ pc = "extracted" => ret = scan.comments

\* a run of two comment lines around a blank line, stored under the key line
\* that follows, whose inline comment is left out
C10_Witness ==
  /\ pc = "extracted"
  /\ lines = <<L_comment, L_blank, L_marked, L_key>>
  /\ scan.comments[<<"a">>] = <<"c", "\n", "d">>
  /\ scan.pendingComments = <<>>

(***************************************************************************)
(* SpecNested: ExtractFromYAML over documents of nested block mappings     *)
(***************************************************************************)
MaxKeyLines == 4

\* the indentations key lines are written at, and the keys they hold
NestedIndents == {0, 2, 3}
NestedKeys == {W_a, W_x}

\* the line `key:` at an indentation, and a comment line at that indentation
KeyLineOf(indent, key) == Spaces(indent) \o key \o <<":">>
CommentLineOf(indent) == Spaces(indent) \o <<"#", " ", "c">>

\* the nearest earlier line of a smaller indentation, 0 when there is none
NearestShallower(ind, j) ==
  LET above == {i \in 1..(j - 1) : ind[i] < ind[j]}
  IN  IF above = {} THEN 0 ELSE CHOOSE i \in above : \A h \in above : h <= i

\* block mappings: the lines of one parent are indented alike
WellNested(ind) ==
  \A j \in 1..Len(ind) : \A i \in 1..(j - 1) :
    NearestShallower(ind, i) = NearestShallower(ind, j) => ind[i] = ind[j]

RECURSIVE SeqsOver(_, _)
SeqsOver(S, n) ==
  IF n = 0 THEN {<<>>}
  ELSE {Append(q, e) : q \in SeqsOver(S, n - 1), e \in S}

\* the key lines of a document, the line `commented` preceded by a comment
NestedLines(ind, keys, commented) ==
  LET lineOf(i) ==
        (IF i = commented THEN <<CommentLineOf(ind[i])>> ELSE <<>>)
          \o <<KeyLineOf(ind[i], keys[i])>>
      RECURSIVE from(_)
      from(i) == IF i > Len(ind) THEN <<>> ELSE lineOf(i) \o from(i + 1)
  IN  from(1)

NestedDocuments ==
  UNION {
    { NestedLines(ind, keys, c) :
        ind \in {q \in SeqsOver(NestedIndents, n) : WellNested(q)},
        keys \in SeqsOver(NestedKeys, n),
        c \in 0..n } : n \in 1..MaxKeyLines }

\* ExtractFromYAML is entered on a document of nested block mappings
CallExtractNested ==
  /\ pc = "idle"
  /\ \E ls \in NestedDocuments :
       /\ args' = [yamlData |-> FileOf(ls)]
       /\ lines' = ScanLines(FileOf(ls))
  /\ scan' = NewScan
  /\ lineNum' = 0
  /\ pc' = "scanning"
  /\ UNCHANGED <<g, ret, globalLogger, runs>>

NextNested == CallExtractNested \/ ScanStep \/ FinishExtract \/ Return

SpecNested == Init /\ [][NextNested]_vars

(***************************************************************************)
(* Claims about the paths of ExtractFromYAML                               *)
(***************************************************************************)
\* what a line of the document is: its indentation and key, or a comment
IsKeyLineAt(j) ==
  \E i \in NestedIndents, k \in NestedKeys : lines[j] = KeyLineOf(i, k)
IndentAt(j) ==
  CHOOSE i \in NestedIndents :
    \E k \in NestedKeys : lines[j] \in {KeyLineOf(i, k), CommentLineOf(i)}
KeyAt(j) ==
  CHOOSE k \in NestedKeys : \E i \in NestedIndents : lines[j] = KeyLineOf(i, k)

\* the parent of the key line j: the nearest earlier key line indented less
ParentLine(j) ==
  LET above == {i \in 1..(j - 1) : IsKeyLineAt(i) /\ IndentAt(i) < IndentAt(j)}
  IN  IF above = {} THEN 0 ELSE CHOOSE i \in above : \A h \in above : h <= i

\* the keys of the ancestors of the key line j, outermost first, then its own
RECURSIVE AncestorChain(_)
AncestorChain(j) ==
  IF ParentLine(j) = 0 THEN <<KeyAt(j)>>
  ELSE Append(AncestorChain(ParentLine(j)), KeyAt(j))

\* C11: in a document of nested block mappings, whatever the indentation
\* widths, the path computed for a key line is the chain of its ancestors'
\* keys followed by its own key, also after the scan has left and re-entered
\* deeper or shallower levels: a key at indentation 0 gets a one-segment
\* path, and a comment preceding a key line is stored under the dot-joined
\* chain of that line.
C11_PathIsAncestorChain ==
  pc \in {"scanning", "extracted"} =>
    /\ (pc = "scanning" /\ lineNum >= 1 /\ IsKeyLineAt(lineNum)) =>
         /\ scan.indentToPath[IndentAt(lineNum)] = AncestorChain(lineNum)
         /\ IndentAt(lineNum) = 0 => Len(scan.indentToPath[0]) = 1
    /\ pc = "extracted" =>
         \A j \in 2..Len(lines) :
           (IsKeyLineAt(j) /\ ~IsKeyLineAt(j - 1)) =>
             /\ Join(AncestorChain(j), <<".">>) \in DOMAIN ret
             /\ ret[Join(AncestorChain(j), <<".">>)] = <<"c">>

\* the scan went two levels down under `a`, came back to the top and entered
\* `x` at another width: the comment before the nested key is stored at x.a
C11_Witness ==
  /\ pc = "extracted"
  /\ lines = << KeyLineOf(0, W_a), KeyLineOf(3, W_x), KeyLineOf(0, W_x),
                CommentLineOf(2), KeyLineOf(2, W_a) >>
  /\ ret = (<<"x", ".", "a">> :> <<"c">>)

(***************************************************************************)
(* Claims about the descriptions GenerateFromYAML applies                  *)
(***************************************************************************)
\* the text of each comment line of the documents, leading blanks trimmed
HeaderTextOf ==
  (<<"#", " ", "-", "-", " ", "t", "o", "p">> :> <<"t", "o", "p">>)
    @@ (<<"#", " ", "t">> :> <<"t">>)
    @@ (<<"#", " ", "v">> :> <<"v">>)
    @@ (<<"#">> :> <<>>)
    @@ [k \in {<<"#", " ">> \o YamlKeys[i].text : i \in 1..Len(YamlKeys)} |->
          SubSeq(k, 3, Len(k))]

\* the lines of a document before its first key line: those that are blank
\* or start with '#'
RECURSIVE LinesBeforeFirstKey(_)
LinesBeforeFirstKey(ls) ==
  IF ls = <<>> THEN <<>>
  ELSE IF TrimSpace(Head(ls)) = <<>> \/ Head(TrimSpace(Head(ls))) = "#"
  THEN <<Head(ls)>> \o LinesBeforeFirstKey(Tail(ls))
  ELSE <<>>

\* the texts of the comment lines among them, in order
TopTexts(bytes) ==
  LET before == LinesBeforeFirstKey(ScanLines(bytes))
      comment == SelectSeq(before, LAMBDA l : TrimSpace(l) # <<>>)
  IN  [i \in 1..Len(comment) |-> HeaderTextOf[TrimSpace(comment[i])]]

\* the nodes of the tree s as pairs <<position, Description>>
RECURSIVE DescriptionsAt(_, _)
DescriptionsAt(s, pos) ==
  {<<pos, s.Description>>}
    \cup (IF s.Properties # <<>>
          THEN UNION {DescriptionsAt(s.Properties[1][k], Append(pos, k)) :
                        k \in DOMAIN s.Properties[1]}
          ELSE {})
    \cup (IF s.Items # <<>>
          THEN DescriptionsAt(s.Items[1], Append(pos, <<"items">>))
          ELSE {})

\* GenerateFromYAML has returned a schema tree
YamlReturnedTree == pc = "GenerateFromYAML" /\ ~ret.err

\* C12 as stated: with ExtractDescriptions enabled and Options.Description
\* empty, the root description after GenerateFromYAML is the newline-joined
\* text of all comment lines preceding the first key line; a configured
\* Options.Description stays; with ExtractDescriptions disabled no node gets
\* a comment-derived description.
C12_RootDescriptionIsAllTopLines ==
  YamlReturnedTree =>
    IF g.ExtractDescriptions
    THEN RunRoot.Description =
           IF g.Description = <<>>
           THEN PlainJoined(TopTexts(args.yamlData.bytes))
           ELSE g.Description
    ELSE DescriptionsAt(RunRoot, <<>>) \subseteq
           ({<<<<>>, g.Description>>}
              \cup {<<n[1], <<>>>> : n \in NodesAt(RunRoot, <<>>)})

\* C12: with ExtractDescriptions enabled and Options.Description empty, the
\* root description after GenerateFromYAML is the text of the comment lines
\* preceding the first key line joined by newlines, the lines of empty text
\* at the head of them skipped; a configured Options.Description stays; with
\* ExtractDescriptions disabled the root keeps Options.Description and no
\* other node has a description.
C12_RootDescriptionIsTopLines ==
  YamlReturnedTree =>
    IF g.ExtractDescriptions
    THEN RunRoot.Description =
           IF g.Description = <<>>
           THEN Joined(TopTexts(args.yamlData.bytes))
           ELSE g.Description
    ELSE DescriptionsAt(RunRoot, <<>>) \subseteq
           ({<<<<>>, g.Description>>}
              \cup {<<n[1], <<>>>> : n \in NodesAt(RunRoot, <<>>)})

\* a header of two comment lines around a blank line becomes the root
\* description, joined by a newline
C12_Witness ==
  /\ YamlReturnedTree
  /\ g.ExtractDescriptions
  /\ g.Description = <<>>
  /\ HasPrefix(args.yamlData.bytes, <<"#", " ", "t", "\n", "\n", "#", " ", "v", "\n">>)
  /\ RunRoot.Description = <<"t", "\n", "v">>

(***************************************************************************)
(* SpecApply: ApplyCommentsToSchema on the trees of the inferrer           *)
(***************************************************************************)
\* the paths comments are recorded at, and the maps an extractor may hold
CommentPaths ==
  { <<>>, W_a, W_port, Dot(W_a, W_port), W_a \o <<"[", "0", "]">> }

CommentMaps ==
  UNION {[P -> {<<"c">>}] : P \in SUBSET CommentPaths}

\* the tree s with the description "o" on the nodes whose path is in P
RECURSIVE WithDescriptions(_, _)
WithDescriptions(s, P) ==
  [s EXCEPT
     !.Description = IF s.HelmPath \in P THEN <<"o">> ELSE @,
     !.Properties =
       IF @ = <<>> THEN <<>>
       ELSE <<[k \in DOMAIN @[1] |-> WithDescriptions(@[1][k], P)]>>,
     !.Items =
       IF @ = <<>> THEN <<>> ELSE <<WithDescriptions(@[1], P)>>]

\* the trees handed to ApplyCommentsToSchema: those GenerateFromMap returns,
\* some of their nodes already described
ApplySchemas ==
  { WithDescriptions(GenerateFromMap(DefaultOptions, v.m, ord).schema[1], P) :
      v \in {u \in TreeValues(MaxNodes - 1) : u.kind = "map"},
      ord \in {[keys |-> <<W_a, W_port>>,
                tags |-> <<"null", "number", "string", "object", "array">>]},
      P \in {{}, {<<>>}, {W_a}} }

\* e.ApplyCommentsToSchema(schema), e holding the comments
CallApplyCommentsToSchema ==
  /\ pc = "idle"
  /\ \E comments \in CommentMaps, schema \in ApplySchemas :
       /\ args' = [comments |-> comments, schema |-> schema]
       /\ ret' = ApplyCommentsToSchema(comments, schema)
  /\ pc' = "ApplyCommentsToSchema"
  /\ UNCHANGED <<g, scan, lines, lineNum, globalLogger, runs>>

\* the same extractor is applied to the tree once more
ReapplyCommentsToSchema ==
  /\ pc = "ApplyCommentsToSchema"
  /\ args' = [args EXCEPT !.schema = ret]
  /\ ret' = ApplyCommentsToSchema(args.comments, ret)
  /\ pc' = "ApplyCommentsToSchema again"
  /\ UNCHANGED <<g, scan, lines, lineNum, globalLogger, runs>>

NextApply == CallApplyCommentsToSchema \/ ReapplyCommentsToSchema \/ Return

SpecApply == Init /\ [][NextApply]_vars

(***************************************************************************)
(* Claims about ApplyCommentsToSchema                                      *)
(***************************************************************************)
\* the nodes of the tree s as triples <<position, HelmPath, Description>>
RECURSIVE DescribedAt(_, _)
DescribedAt(s, pos) ==
  {<<pos, s.HelmPath, s.Description>>}
    \cup (IF s.Properties # <<>>
          THEN UNION {DescribedAt(s.Properties[1][k], Append(pos, k)) :
                        k \in DOMAIN s.Properties[1]}
          ELSE {})
    \cup (IF s.Items # <<>>
          THEN DescribedAt(s.Items[1], Append(pos, <<"items">>))
          ELSE {})

\* the tree s with every description blanked
RECURSIVE Undescribed(_)
Undescribed(s) ==
  [s EXCEPT
     !.Description = <<>>,
     !.Properties =
       IF @ = <<>> THEN <<>>
       ELSE <<[k \in DOMAIN @[1] |-> Undescribed(@[1][k])]>>,
     !.Items = IF @ = <<>> THEN <<>> ELSE <<Undescribed(@[1])>>]

\* C13: ApplyCommentsToSchema changes no field of any node other than
\* Description; a node's Description is set only when it was empty and a
\* comment is recorded at the node's HelmPath, and then to that comment; a
\* non-empty description is never overwritten; applying it twice gives the
\* same tree as applying it once.
C13_OnlyEmptyDescriptionsAreSet ==
  /\ pc \in {"ApplyCommentsToSchema", "ApplyCommentsToSchema again"} =>
       /\ Undescribed(ret) = Undescribed(args.schema)
       /\ DescribedAt(ret, <<>>) =
            { <<n[1], n[2],
                IF n[3] = <<>> /\ n[2] \in DOMAIN args.comments
                THEN args.comments[n[2]] ELSE n[3]>> :
              n \in DescribedAt(args.schema, <<>>) }
  /\ pc = "ApplyCommentsToSchema again" => ret = args.schema

\* the root had a description and keeps it although a comment is recorded
\* at its path; the property `a` had none and takes its comment; the second
\* application has changed nothing
C13_Witness ==
  /\ pc = "ApplyCommentsToSchema again"
  /\ {<<>>, W_a} \subseteq DOMAIN args.comments
  /\ ret.Description = <<"o">>
  /\ ret.Properties # <<>>
  /\ W_a \in DOMAIN ret.Properties[1]
  /\ ret.Properties[1][W_a].Description = <<"c">>
  /\ ret.Properties[1][W_a].Type # NoType

(***************************************************************************)
(* pkg/json-schema-generator/generate.go: the generator that carries the   *)
(* enricher.  Its inferSchema knows single type tags only; its functions   *)
(* are prefixed Jsg here where the name is already taken by the            *)
(* schema-generator package.  isDate, isDateTime, isEmail and isURI are    *)
(* the same in both.                                                       *)
(***************************************************************************)
W_repository == <<"r","e","p","o","s","i","t","o","r","y">>
W_tag == <<"t","a","gen">>
W_pullPolicy == <<"p","u","l","l","P","o","l","i","c","y">>
W_limits == <<"l","i","m","i","t","s">>
W_requests == <<"r","e","q","u","e","s","t","s">>
W_cpu == <<"c","p","u">>

RECURSIVE JsgInferSchema(_, _, _, _)
RECURSIVE JsgInferProperties(_, _, _, _, _, _)

\* inferSchema of generate.go
JsgInferSchema(gen, value, path, order) ==
  LET schema == [ZeroSchema EXCEPT !.HelmPath = path]
  IN  CASE value.kind = "nil" -> [schema EXCEPT !.Type = Single(TypeNull)]
        [] value.kind = "bool" ->
             [schema EXCEPT
                !.Type = Single(TypeBoolean),
                !.Default = IF gen.IncludeExamples THEN <<value>> ELSE <<>>]
        [] value.kind = "int" ->
             [schema EXCEPT
                !.Type = Single(TypeInteger),
                !.Examples = IF gen.IncludeExamples THEN <<value>> ELSE <<>>]
        [] value.kind = "float" ->
             [schema EXCEPT
                !.Type = Single(TypeNumber),
                !.Examples = IF gen.IncludeExamples THEN <<value>> ELSE <<>>]
        [] value.kind = "string" ->
             [schema EXCEPT
                !.Type = Single(TypeString),
                !.Format = InferFormat(value.s),
                !.Examples = IF gen.IncludeExamples THEN <<value>> ELSE <<>>]
        [] value.kind = "slice" ->
             [schema EXCEPT
                !.Type = Single(TypeArray),
                !.Items =
                  IF Len(value.elems) = 0 THEN <<ZeroSchema>>
                  ELSE <<JsgInferSchema(gen, value.elems[1],
                                        path \o <<"[", "0", "]">>, order)>>]
        [] value.kind = "map" ->
             LET props ==
                   JsgInferProperties(gen, value.m, path,
                                      RangeKeys(value.m, order), order,
                                      [props |-> <<>>, required |-> <<>>])
             IN  [schema EXCEPT
                    !.Type = Single(TypeObject),
                    !.Properties = <<props.props>>,
                    !.Required = props.required]
        [] OTHER -> schema

\* `for k, v := range mapValue` of inferSchema
JsgInferProperties(gen, mapValue, path, keys, order, acc) ==
  IF keys = <<>> THEN acc
  ELSE LET k == Head(keys)
       IN  JsgInferProperties(
             gen, mapValue, path, Tail(keys), order,
             [acc EXCEPT
                !.props =
                  (k :> JsgInferSchema(gen, mapValue[k], Dot(path, k), order)) @@ @,
                !.required = AppendRequired(@, gen, k, mapValue[k])])

\* `for key, value := range data` of GenerateFromMap
RECURSIVE JsgInferRootProperties(_, _, _, _, _)
JsgInferRootProperties(gen, data, keys, order, acc) ==
  IF keys = <<>> THEN acc
  ELSE LET key == Head(keys)
       IN  JsgInferRootProperties(
             gen, data, Tail(keys), order,
             [acc EXCEPT
                !.props = (key :> JsgInferSchema(gen, data[key], key, order)) @@ @,
                !.required = AppendRequired(@, gen, key, data[key])])

\* GenerateFromMap of generate.go
JsgGenerateFromMap(gen, data, order) ==
  LET props ==
        JsgInferRootProperties(gen, data, RangeKeys(data, order), order,
                               [props |-> <<>>, required |-> <<>>])
  IN  [ZeroSchema EXCEPT
         !.Schema = gen.SchemaVersion,
         !.Title = gen.Title,
         !.Description = gen.Description,
         !.Type = Single(TypeObject),
         !.Properties = <<props.props>>,
         !.Required = props.required]

\* variant: one of the two keys is enough
isImageConfigEither(schema) ==
  /\ ~(schema.Type # Single(TypeObject) \/ schema.Properties = <<>>)
  /\ \/ W_repository \in DOMAIN schema.Properties[1]
     \/ W_tag \in DOMAIN schema.Properties[1]

isImageConfig(schema) ==
  IF schema.Type # Single(TypeObject) \/ schema.Properties = <<>> THEN FALSE
  ELSE LET hasRepository == W_repository \in DOMAIN schema.Properties[1]
           hasTag == W_tag \in DOMAIN schema.Properties[1]
       IN  hasRepository /\ hasTag

createImageSchema(path) ==
  [ZeroSchema EXCEPT
     !.Type = Single(TypeObject),
     !.Description = <<"C","o","n","t","a","i","n","e","r"," ","i","m","a","gen","e"," ","c","o","n","f","i","gen","u","r","a","t","i","o","n">>,
     !.HelmPath = path,
     !.Properties =
       << (W_repository :>
             [ZeroSchema EXCEPT
                !.Type = Single(TypeString),
                !.Description = <<"C","o","n","t","a","i","n","e","r"," ","i","m","a","gen","e"," ","r","e","p","o","s","i","t","o","r","y">>])
          @@ (W_tag :>
             [ZeroSchema EXCEPT
                !.Type = Single(TypeString),
                !.Description = <<"C","o","n","t","a","i","n","e","r"," ","i","m","a","gen","e"," ","t","a","gen">>,
                !.Default = <<StringValue(<<"l","a","t","e","s","t">>)>>])
          @@ (W_pullPolicy :>
             [ZeroSchema EXCEPT
                !.Type = Single(TypeString),
                !.Description = <<"I","m","a","gen","e"," ","p","u","l","l"," ","p","o","l","i","c","y">>,
                !.Enum = << StringValue(<<"A","l","w","a","y","s">>),
                            StringValue(<<"I","f","N","o","t","P","r","e","s","e","n","t">>),
                            StringValue(<<"N","e","v","e","r">>) >>,
                !.Default = <<StringValue(<<"I","f","N","o","t","P","r","e","s","e","n","t">>)>>]) >>,
     !.Required = <<W_repository>>]

isResourcesConfig(schema) ==
  IF schema.Type # Single(TypeObject) \/ schema.Properties = <<>> THEN FALSE
  ELSE LET hasLimits == W_limits \in DOMAIN schema.Properties[1]
           hasRequests == W_requests \in DOMAIN schema.Properties[1]
       IN  hasLimits \/ hasRequests

\* resourceLimitSchema and resourceRequestSchema, alike but for their texts
resourceSchemaOf(description, cpu, memory) ==
  [ZeroSchema EXCEPT
     !.Type = Single(TypeObject),
     !.Description = description,
     !.Properties =
       << (W_cpu :>
             [ZeroSchema EXCEPT
                !.Type = Single(TypeString),
                !.Description = cpu,
                !.Examples = <<StringValue(<<"1","0","0","m">>), StringValue(<<"0",".","1">>)>>])
          @@ (W_memory :>
             [ZeroSchema EXCEPT
                !.Type = Single(TypeString),
                !.Description = memory,
                !.Examples = <<StringValue(<<"1","2","8","M","i">>), StringValue(<<"1","G","i">>)>>]) >>]

createResourcesSchema(path) ==
  [ZeroSchema EXCEPT
     !.Type = Single(TypeObject),
     !.Description = <<"C","P","U","/","M","e","m","o","r","y"," ","r","e","s","o","u","r","c","e"," ","r","e","q","u","i","r","e","m","e","n","t","s">>,
     !.HelmPath = path,
     !.Properties =
       << (W_limits :>
             resourceSchemaOf(<<"R","e","s","o","u","r","c","e"," ","l","i","m","i","t","s">>, <<"C","P","U"," ","l","i","m","i","t">>, <<"M","e","m","o","r","y"," ","l","i","m","i","t">>))
          @@ (W_requests :>
             resourceSchemaOf(<<"R","e","s","o","u","r","c","e"," ","r","e","q","u","e","s","t","s">>, <<"C","P","U"," ","r","e","q","u","e","s","t">>,
                              <<"M","e","m","o","r","y"," ","r","e","q","u","e","s","t">>)) >>]

\* variant: array items are left as they are
RECURSIVE SpecializeProperties(_)
SpecializeProperties(schema) ==
  IF isImageConfig(schema) THEN createImageSchema(schema.HelmPath)
  ELSE IF isResourcesConfig(schema) THEN createResourcesSchema(schema.HelmPath)
  ELSE IF schema.Type = Single(TypeObject) /\ schema.Properties # <<>>
  THEN [schema EXCEPT
          !.Properties =
            <<[key \in DOMAIN @[1] |-> SpecializeProperties(@[1][key])]>>]
  ELSE schema

\* SpecializeSchemaForHelm: the tree it returns
RECURSIVE SpecializeSchemaForHelm(_)
SpecializeSchemaForHelm(schema) ==
  IF isImageConfig(schema) THEN createImageSchema(schema.HelmPath)
  ELSE IF isResourcesConfig(schema) THEN createResourcesSchema(schema.HelmPath)
  ELSE LET withProps ==
             IF schema.Type = Single(TypeObject) /\ schema.Properties # <<>>
             THEN [schema EXCEPT
                     !.Properties =
                       <<[key \in DOMAIN @[1] |->
                            SpecializeSchemaForHelm(@[1][key])]>>]
             ELSE schema
       IN  IF withProps.Type = Single(TypeArray) /\ withProps.Items # <<>>
           THEN [withProps EXCEPT
                   !.Items = <<SpecializeSchemaForHelm(@[1])>>]
           ELSE withProps

(***************************************************************************)
(* SpecEnrich: SpecializeSchemaForHelm on the trees of its generator       *)
(***************************************************************************)
MaxShapeNodes == 4

ShapeKeys ==
  << RawKey(W_a), RawKey(W_limits), RawKey(W_repository), RawKey(W_requests),
     RawKey(W_tag) >>

\* the mappings of at most n nodes, and those of one node less as the only
\* element of a sequence under the key `a`
ShapeValues(n) ==
  LET maps(k) ==
        {convertYAMLToStringMap(t).val :
           t \in {u \in TreesUpTo(k, ShapeKeys, {StringValue(W_x)}) :
                    u.kind = "yamlmap"}}
  IN  maps(n) \cup {MapValue(W_a :> SliceValue(<<v>>)) : v \in maps(n - 1)}

\* the paths of the nodes of a tree
PathsOf(s) == {n[2] : n \in NodesAt(s, <<>>)}

\* generator.SpecializeSchemaForHelm(schema) on what GenerateFromMap returned,
\* as it is or with a description on every node
CallSpecializeSchemaForHelm ==
  /\ pc = "idle"
  /\ \E v \in ShapeValues(MaxShapeNodes), described \in BOOLEAN :
       LET order == <<W_a, W_limits, W_repository, W_requests, W_tag>>
           inferred == JsgGenerateFromMap(DefaultOptions, v.m, order)
           schema == IF described
                     THEN WithDescriptions(inferred, PathsOf(inferred))
                     ELSE inferred
       IN  /\ args' = [schema |-> schema]
           /\ ret' = SpecializeSchemaForHelm(schema)
  /\ pc' = "SpecializeSchemaForHelm"
  /\ UNCHANGED <<g, scan, lines, lineNum, globalLogger, runs>>

\* the enricher is run on its own result
RespecializeSchemaForHelm ==
  /\ pc = "SpecializeSchemaForHelm"
  /\ args' = [schema |-> ret]
  /\ ret' = SpecializeSchemaForHelm(ret)
  /\ pc' = "SpecializeSchemaForHelm again"
  /\ UNCHANGED <<g, scan, lines, lineNum, globalLogger, runs>>

NextEnrich == CallSpecializeSchemaForHelm \/ RespecializeSchemaForHelm \/ Return

SpecEnrich == Init /\ [][NextEnrich]_vars

(***************************************************************************)
(* Claims about SpecializeSchemaForHelm                                    *)
(***************************************************************************)
\* the nodes of the tree s as pairs <<position, node>>
RECURSIVE SubtreesAt(_, _)
SubtreesAt(s, pos) ==
  {<<pos, s>>}
    \cup (IF s.Properties # <<>>
          THEN UNION {SubtreesAt(s.Properties[1][k], Append(pos, k)) :
                        k \in DOMAIN s.Properties[1]}
          ELSE {})
    \cup (IF s.Items # <<>>
          THEN SubtreesAt(s.Items[1], Append(pos, <<"items">>))
          ELSE {})

\* the two named shapes
PropertyNames(n) == IF n.Properties = <<>> THEN {} ELSE DOMAIN n.Properties[1]
IsObjectNode(n) == TypeObject \in TypeTags(n.Type)
HasImageShape(n) ==
  IsObjectNode(n) /\ {W_repository, W_tag} \subseteq PropertyNames(n)
HasResourceShape(n) ==
  IsObjectNode(n) /\ {W_limits, W_requests} \cap PropertyNames(n) # {}

\* the fixed container-image schema, as the claim describes it
IsImageFragment(n) ==
  /\ n.Type = Single(TypeObject)
  /\ PropertyNames(n) = {W_repository, W_tag, W_pullPolicy}
  /\ n.Required = <<W_repository>>
  /\ \A k \in PropertyNames(n) : n.Properties[1][k].Type = Single(TypeString)
  /\ n.Properties[1][W_tag].Default = <<StringValue(<<"l","a","t","e","s","t">>)>>
  /\ Elements(n.Properties[1][W_pullPolicy].Enum) =
       { StringValue(<<"A","l","w","a","y","s">>),
         StringValue(<<"I","f","N","o","t","P","r","e","s","e","n","t">>),
         StringValue(<<"N","e","v","e","r">>) }
  /\ n.Properties[1][W_pullPolicy].Default =
       <<StringValue(<<"I","f","N","o","t","P","r","e","s","e","n","t">>)>>

\* a node is a fixed fragment: the same whatever it replaced, but its path
IsCanonical(n) ==
  \/ n = createImageSchema(n.HelmPath) /\ IsImageFragment(n)
  \/ /\ n = createResourcesSchema(n.HelmPath)
     /\ PropertyNames(n) = {W_limits, W_requests}

\* the node that stands at a position of a tree
HasNodeAt(s, pos) == \E p \in SubtreesAt(s, <<>>) : p[1] = pos
NodeAt(s, pos) == (CHOOSE p \in SubtreesAt(s, <<>>) : p[1] = pos)[2]

\* the positions of a tree that lie under a node of a named shape
InsideShape(s, pos) ==
  \E p \in SubtreesAt(s, <<>>) :
    /\ HasImageShape(p[2]) \/ HasResourceShape(p[2])
    /\ Len(p[1]) < Len(pos)
    /\ SubSeq(pos, 1, Len(p[1])) = p[1]

EnricherReturned ==
  pc \in {"SpecializeSchemaForHelm", "SpecializeSchemaForHelm again"}

\* C14 as stated: every object node whose properties include both
\* 'repository' and 'tag' is replaced by the fixed container-image schema,
\* and every object node having 'limits' and/or 'requests' by the fixed
\* resources schema; nothing of the inferred subtree survives but the path.
C14_EveryShapeNodeIsReplaced ==
  EnricherReturned =>
    \A p \in SubtreesAt(args.schema, <<>>) :
      /\ HasImageShape(p[2]) =>
           /\ HasNodeAt(ret, p[1])
           /\ NodeAt(ret, p[1]) = createImageSchema(p[2].HelmPath)
      /\ HasResourceShape(p[2]) =>
           /\ HasNodeAt(ret, p[1])
           /\ NodeAt(ret, p[1]) = createResourcesSchema(p[2].HelmPath)

\* C14: every object node that is not inside another node of a named shape
\* is replaced by the fixed container-image schema when its properties
\* include both 'repository' and 'tag', and otherwise by the fixed resources
\* schema when it has 'limits' and/or 'requests'; the replacement is total,
\* only the node's path survives, and what was under the node is gone.  The
\* other nodes outside the named shapes keep everything but their children.
C14_OutermostShapeNodeIsReplaced ==
  EnricherReturned =>
    \A p \in SubtreesAt(args.schema, <<>>) :
      IF InsideShape(args.schema, p[1]) THEN TRUE
      ELSE /\ HasNodeAt(ret, p[1])
           /\ LET n == NodeAt(ret, p[1])
              IN  IF HasImageShape(p[2])
                  THEN n = createImageSchema(p[2].HelmPath) /\ IsImageFragment(n)
                  ELSE IF HasResourceShape(p[2])
                  THEN /\ n = createResourcesSchema(p[2].HelmPath)
                       /\ PropertyNames(n) = {W_limits, W_requests}
                  ELSE /\ [n EXCEPT !.Properties = <<>>, !.Items = <<>>] =
                            [p[2] EXCEPT !.Properties = <<>>, !.Items = <<>>]
                       /\ PropertyNames(n) = PropertyNames(p[2])
                       /\ (n.Items = <<>>) = (p[2].Items = <<>>)

\* the described image mapping under `a` has become the fixed image schema
\* at path a: its own description and those of its properties are gone
C14_Witness ==
  /\ pc = "SpecializeSchemaForHelm"
  /\ W_a \in PropertyNames(args.schema)
  /\ args.schema.Properties[1][W_a].Description = <<"o">>
  /\ PropertyNames(args.schema.Properties[1][W_a]) = {W_repository, W_tag}
  /\ ret.Properties[1][W_a] = createImageSchema(W_a)
  /\ ret.Description = <<"o">>

\* C15: after SpecializeSchemaForHelm no node of the resulting tree, reached
\* through properties or array items at any depth, has the image shape or
\* the resource shape without being the fixed fragment of that shape, and a
\* second run of the enricher changes nothing.
C15_NoShapeIsLeft ==
  /\ EnricherReturned =>
       \A p \in SubtreesAt(ret, <<>>) :
         (HasImageShape(p[2]) \/ HasResourceShape(p[2])) => IsCanonical(p[2])
  /\ pc = "SpecializeSchemaForHelm again" => ret = args.schema

\* the image mapping that was the element of the sequence under `a` is the
\* fixed image schema at a[0], and the second run has left the tree alone
C15_Witness ==
  /\ pc = "SpecializeSchemaForHelm again"
  /\ W_a \in PropertyNames(ret)
  /\ ret.Properties[1][W_a].Type = Single(TypeArray)
  /\ ret.Properties[1][W_a].Items = <<createImageSchema(W_a \o <<"[", "0", "]">>)>>
  /\ ret = args.schema

(***************************************************************************)
(* helm_best_practices.go: ValidateHelmBestPractices                       *)
(* A walk is [panicked, issues, visited]: whether a step has panicked,     *)
(* *issues so far, and the positions of the nodes validateSchema was       *)
(* called on so far (only the claims read visited).  After a panic nothing *)
(* more is done.                                                           *)
(***************************************************************************)
Error == "error"
Warning == "warning"
Info == "info"

MaxNestingDepth == 5

ValidationIssue(path, message, level) ==
  [Path |-> path, Message |-> message, Level |-> level]

\* *issues = append(*issues, issue)
AppendIssue(walk, issue) == [walk EXCEPT !.issues = Append(@, issue)]

\* isTypeInArray for the Type values of this model: a []SchemaType list
isTypeInArray(typeToFind, types) ==
  /\ types.k = "list"
  /\ \E i \in 1..Len(types.tags) : types.tags[i] = typeToFind

\* `schema.Type == TypeArray || (schema.Type != nil && isTypeInArray(...))`
IsArrayTyped(schema) ==
  \/ schema.Type = Single(TypeArray)
  \/ schema.Type # NoType /\ isTypeInArray(TypeArray, schema.Type)

\* the body of the loop of checkNamingConventions for one property name;
\* propName[:1] panics on the empty name
CheckName(walk, path, propName) ==
  IF walk.panicked THEN walk
  ELSE IF Len(propName) < 1 THEN [walk EXCEPT !.panicked = TRUE]
  ELSE LET first == SubSeq(propName, 1, 1)
           cased ==
             IF ToLower(first) # first
             THEN AppendIssue(walk, ValidationIssue(
                    path \o <<".">> \o propName,
                    "Property names should follow camelCase convention",
                    Warning))
             ELSE walk
       IN  IF Contains(propName, <<"-">>) \/ Contains(propName, <<"_">>)
           THEN AppendIssue(cased, ValidationIssue(
                  path \o <<".">> \o propName,
                  "Property names should not contain hyphens or underscores",
                  Error))
           ELSE cased

RECURSIVE CheckNames(_, _, _)
CheckNames(walk, path, names) ==
  IF names = <<>> THEN walk
  ELSE CheckNames(CheckName(walk, path, Head(names)), path, Tail(names))

checkNamingConventions(schema, path, walk, order) ==
  IF schema.Properties = <<>> \/ path = <<>> THEN walk
  ELSE CheckNames(walk, path, RangeKeys(schema.Properties[1], order))

checkNestingDepth(depth, path, walk) ==
  IF walk.panicked THEN walk
  ELSE IF depth > MaxNestingDepth
  THEN AppendIssue(walk, ValidationIssue(
         path,
         "Excessive nesting depth (" \o ToString(depth)
           \o " levels). Consider flattening the structure or using dot notation for paths.",
         Warning))
  ELSE walk

checkArrayStructures(schema, path, walk) ==
  IF walk.panicked THEN walk
  ELSE IF IsArrayTyped(schema)
  THEN LET itemless ==
             IF schema.Items = <<>>
             THEN AppendIssue(walk, ValidationIssue(
                    path, "Array should define an items schema for validation",
                    Warning))
             ELSE walk
       IN  IF /\ path # <<>>
              /\ \/ Contains(path, <<"s","e","c","r","e","t">>)
                 \/ Contains(path, <<"c","o","n","f","i","g">>)
                 \/ Contains(path, <<"c","e","r","t","i","f","i","c","a","t","e">>)
              /\ schema.MinItems = <<>> /\ schema.MaxItems = <<>>
           THEN AppendIssue(itemless, ValidationIssue(
                  path,
                  "Consider adding minItems/maxItems constraints for this array",
                  Info))
           ELSE itemless
  ELSE walk

\* strings.Count(s, c) for a one-character c
Count(s, c) == Cardinality({i \in 1..Len(s) : s[i] = c})

checkDocumentation(schema, path, walk) ==
  IF walk.panicked \/ path = <<>> THEN walk
  ELSE LET described ==
             IF schema.Description = <<>>
             THEN AppendIssue(walk, ValidationIssue(
                    path, "Property should have a description",
                    IF Count(path, ".") <= 1 THEN Warning ELSE Info))
             ELSE walk
           isLeaf == schema.Properties = <<>> \/ DOMAIN schema.Properties[1] = {}
       IN  IF /\ isLeaf
              /\ schema.Examples = <<>> /\ schema.Default = <<>>
              /\ schema.Type # Single(TypeObject)
              /\ schema.Type # Single(TypeArray)
           THEN AppendIssue(described, ValidationIssue(
                  path, "Consider adding examples or default value", Info))
           ELSE described

RECURSIVE validateSchema(_, _, _, _, _, _)
RECURSIVE ValidateProperties(_, _, _, _, _, _, _)

\* `for propName, propSchema := range schema.Properties` of validateSchema
ValidateProperties(schema, path, depth, pos, walk, order, names) ==
  IF names = <<>> \/ walk.panicked THEN walk
  ELSE LET propName == Head(names)
           propPath == IF path = <<>> THEN propName
                       ELSE path \o <<".">> \o propName
       IN  ValidateProperties(
             schema, path, depth, pos,
             validateSchema(schema.Properties[1][propName], propPath,
                            depth + 1, Append(pos, propName), walk, order),
             order, Tail(names))

validateSchema(schema, path, depth, pos, walk, order) ==
  IF walk.panicked THEN walk
  ELSE LET checked ==
             checkDocumentation(schema, path,
               checkArrayStructures(schema, path,
                 checkNestingDepth(depth, path,
                   checkNamingConventions(
                     schema, path,
                     [walk EXCEPT !.visited = Append(@, pos)], order))))
           withProps ==
             IF schema.Properties # <<>>
             THEN ValidateProperties(
                    schema, path, depth, pos, checked, order,
                    RangeKeys(schema.Properties[1], order))
             ELSE checked
       IN  IF IsArrayTyped(schema) /\ schema.Items # <<>>
           THEN validateSchema(schema.Items[1], path \o <<"[", "]">>,
                               depth + 1, Append(pos, <<"items">>),
                               withProps, order)
           ELSE withProps

ValidateHelmBestPractices(schema, order) ==
  validateSchema(schema, <<>>, 0, <<>>,
                 [panicked |-> FALSE, issues |-> <<>>, visited |-> <<>>], order)

(***************************************************************************)
(* SpecLint: ValidateHelmBestPractices on hand-built schema trees, as      *)
(* TestHelmBestPractices builds them                                       *)
(***************************************************************************)
MaxLintNodes == 4

W_Ab == <<"A","b">>
W_a_b == <<"a","_","b">>
W_A_b == <<"A","-","b">>
W_tlsSecret == <<"t","l","s","S","e","c","r","e","t">>

\* property names: the empty name, a capitalised one, one with an
\* underscore, a capitalised one with a hyphen, and two plain ones
LintKeys == << <<>>, W_Ab, W_a_b, W_A_b, W_config, W_tlsSecret >>

LintLeaves ==
  { [ZeroSchema EXCEPT !.Type = Single(TypeString)],
    [ZeroSchema EXCEPT !.Type = Single(TypeArray)],
    [ZeroSchema EXCEPT !.Type = Single(TypeArray), !.MinItems = <<1>>],
    [ZeroSchema EXCEPT !.Type = Union(<<TypeString, TypeArray>>)] }

\* the types of the nodes that carry Items
LintItemTypes ==
  { Single(TypeArray), Union(<<TypeString, TypeArray>>),
    Union(<<TypeNull, TypeInteger>>) }

RECURSIVE LintTreesOfSize(_)
RECURSIVE LintPropertiesOfTotal(_, _)

\* the schema trees of exactly n nodes
LintTreesOfSize(n) ==
  (IF n = 1 THEN LintLeaves ELSE {})
    \cup {[ZeroSchema EXCEPT !.Type = Single(TypeObject), !.Properties = <<m>>] :
            m \in LintPropertiesOfTotal(n - 1, 1)}
    \cup (IF n > 1
          THEN {[ZeroSchema EXCEPT !.Type = T, !.Items = <<s>>] :
                  T \in LintItemTypes, s \in LintTreesOfSize(n - 1)}
          ELSE {})

\* the Properties maps over some of LintKeys[i..] of t nodes in all
LintPropertiesOfTotal(t, i) ==
  IF i > Len(LintKeys) THEN (IF t = 0 THEN {<<>>} ELSE {})
  ELSE LintPropertiesOfTotal(t, i + 1)
         \cup UNION {{(LintKeys[i] :> s) @@ m :
                        s \in LintTreesOfSize(n),
                        m \in LintPropertiesOfTotal(t - n, i + 1)} :
                     n \in 1..t}

\* a described string under k nested objects, each under the key `config`
RECURSIVE LintChain(_)
LintChain(k) ==
  IF k = 0
  THEN [ZeroSchema EXCEPT !.Type = Single(TypeString), !.Description = <<"d">>]
  ELSE [ZeroSchema EXCEPT !.Type = Single(TypeObject),
                          !.Description = <<"d">>,
                          !.Properties = <<W_config :> LintChain(k - 1)>>]

\* the trees handed to the linter: the root is an object
LintSchemas(n) ==
  {s \in UNION {LintTreesOfSize(k) : k \in 1..n} : s.Type = Single(TypeObject)}
    \cup {LintChain(MaxNestingDepth + 1)}

\* the two orders in which the runs range over Properties
LintOrders ==
  {LintKeys, [i \in 1..Len(LintKeys) |-> LintKeys[Len(LintKeys) + 1 - i]]}

\* issues := ValidateHelmBestPractices(schema); a panic ends the program
CallValidateHelmBestPractices ==
  /\ pc = "idle"
  /\ \E schema \in LintSchemas(MaxLintNodes), order \in LintOrders :
       LET walk == ValidateHelmBestPractices(schema, order)
       IN  /\ args' = [schema |-> schema, order |-> order]
           /\ ret' = walk
           /\ pc' = IF walk.panicked THEN "panic"
                    ELSE "ValidateHelmBestPractices"
  /\ UNCHANGED <<g, scan, lines, lineNum, globalLogger, runs>>

NextLint == CallValidateHelmBestPractices \/ Return

SpecLint == Init /\ [][NextLint]_vars

(***************************************************************************)
(* Claims about ValidateHelmBestPractices                                  *)
(***************************************************************************)
LintCalled == pc \in {"ValidateHelmBestPractices", "panic"}

\* the path of the node at a position: names joined with '.', "[]" for items
RECURSIVE LintPathOf(_)
LintPathOf(pos) ==
  IF pos = <<>> THEN <<>>
  ELSE LET parent == LintPathOf(SubSeq(pos, 1, Len(pos) - 1))
           step == pos[Len(pos)]
       IN  IF step = <<"items">> THEN parent \o <<"[", "]">>
           ELSE IF parent = <<>> THEN step
           ELSE parent \o <<".">> \o step

\* the call returned a list holding this diagnostic
Reported(path, message, level) ==
  /\ pc = "ValidateHelmBestPractices"
  /\ \E i \in 1..Len(ret.issues) :
       ret.issues[i] = ValidationIssue(path, message, level)

\* C16: ValidateHelmBestPractices returns a diagnostics list for every
\* schema tree: whatever the property names, types, paths or depth, the
\* walk does not fail and visits every node of the tree.
C16_AlwaysReturnsDiagnostics ==
  LintCalled =>
    /\ pc = "ValidateHelmBestPractices"
    /\ {ret.visited[i] : i \in 1..Len(ret.visited)}
         = {n[1] : n \in SubtreesAt(args.schema, <<>>)}

NotLowerFirst(name) ==
  name # <<>> /\ \A i \in 1..Len(LowerChars) : LowerChars[i] # name[1]

HasHyphenOrUnderscore(name) ==
  \E i \in 1..Len(name) : name[i] \in {"-", "_"}

\* C17: for each property name directly under a non-root node a warning is
\* reported when its first character is not lowercase and an error when it
\* contains '-' or '_', each with path parentPath + '.' + name; the names
\* directly under the root are never checked.
C17_NamingDiagnostics ==
  LintCalled =>
    /\ \A n \in SubtreesAt(args.schema, <<>>) :
         \A name \in PropertyNames(n[2]) :
           LET path == LintPathOf(n[1]) \o <<".">> \o name
           IN  n[1] # <<>> =>
                 /\ NotLowerFirst(name) =>
                      Reported(path,
                        "Property names should follow camelCase convention",
                        Warning)
                 /\ HasHyphenOrUnderscore(name) =>
                      Reported(path,
                        "Property names should not contain hyphens or underscores",
                        Error)
    /\ \A i \in 1..Len(ret.issues) :
         ret.issues[i].Message \in
             {"Property names should follow camelCase convention",
              "Property names should not contain hyphens or underscores"} =>
           \E n \in SubtreesAt(args.schema, <<>>) :
             \E name \in PropertyNames(n[2]) :
               /\ n[1] # <<>>
               /\ ret.issues[i].Path = LintPathOf(n[1]) \o <<".">> \o name
               /\ \/ /\ ret.issues[i].Level = Warning
                     /\ ret.issues[i].Message =
                          "Property names should follow camelCase convention"
                     /\ NotLowerFirst(name)
                  \/ /\ ret.issues[i].Level = Error
                     /\ ret.issues[i].Message =
                          "Property names should not contain hyphens or underscores"
                     /\ HasHyphenOrUnderscore(name)

IncludesArray(n) == TypeArray \in TypeTags(n.Type)

\* the path contains one of the three words, whatever the case
NamesSensitiveData(path) ==
  \/ Contains(ToLower(path), <<"s","e","c","r","e","t">>)
  \/ Contains(ToLower(path), <<"c","o","n","f","i","g">>)
  \/ Contains(ToLower(path), <<"c","e","r","t","i","f","i","c","a","t","e">>)

\* C18: every node whose type includes array gets a warning when Items is
\* absent and an info when its path contains 'secret', 'config' or
\* 'certificate' in any case and neither MinItems nor MaxItems is set; no
\* other node gets either diagnostic.
C18_ArrayDiagnostics ==
  LintCalled =>
    /\ \A n \in SubtreesAt(args.schema, <<>>) :
         IncludesArray(n[2]) =>
           /\ n[2].Items = <<>> =>
                Reported(LintPathOf(n[1]),
                  "Array should define an items schema for validation",
                  Warning)
           /\ /\ NamesSensitiveData(LintPathOf(n[1]))
              /\ n[2].MinItems = <<>> /\ n[2].MaxItems = <<>>
              => Reported(LintPathOf(n[1]),
                   "Consider adding minItems/maxItems constraints for this array",
                   Info)
    /\ \A i \in 1..Len(ret.issues) :
         /\ ret.issues[i].Message =
              "Array should define an items schema for validation" =>
              \E n \in SubtreesAt(args.schema, <<>>) :
                /\ LintPathOf(n[1]) = ret.issues[i].Path
                /\ IncludesArray(n[2]) /\ n[2].Items = <<>>
         /\ ret.issues[i].Message =
              "Consider adding minItems/maxItems constraints for this array" =>
              \E n \in SubtreesAt(args.schema, <<>>) :
                /\ LintPathOf(n[1]) = ret.issues[i].Path
                /\ IncludesArray(n[2])
                /\ NamesSensitiveData(ret.issues[i].Path)
                /\ n[2].MinItems = <<>> /\ n[2].MaxItems = <<>>

(***************************************************************************)
(* SpecRuns: NumRuns goroutines, each running inferSchema on a value of    *)
(* its own.  Every invocation of inferSchema begins with                   *)
(* logging.WithComponent, that is GetLogger; nothing orders the accesses   *)
(* of two goroutines to globalLogger, so each access is a step of its own. *)
(***************************************************************************)
RECURSIVE InferSchemaCalls(_)
RECURSIVE InferSchemaCallsUnder(_, _)

\* the number of invocations of inferSchema that inferring a value makes
InferSchemaCalls(value) ==
  IF value.kind = "slice"
  THEN IF value.elems = <<>> \/ hasMixedTypes(value.elems) THEN 1
       ELSE 1 + InferSchemaCalls(value.elems[1])
  ELSE IF value.kind = "map"
  THEN 1 + InferSchemaCallsUnder(value.m, DOMAIN value.m)
  ELSE 1

InferSchemaCallsUnder(m, keys) ==
  IF keys = {} THEN 0
  ELSE LET k == CHOOSE key \in keys : TRUE
       IN  InferSchemaCalls(m[k]) + InferSchemaCallsUnder(m, keys \ {k})

\* the values the runs infer
RunValues ==
  { StringValue(W_x),
    MapValue(W_a :> IntValue(42)),
    SliceValue(<<NilValue, IntValue(42)>>) }

\* the caller's goroutine calls logging.GetLogger before it starts any run
CallGetLogger ==
  /\ pc = "idle"
  /\ globalLogger' = GetLogger(globalLogger, Main)
  /\ ret' = globalLogger'
  /\ pc' = "GetLogger"
  /\ UNCHANGED <<g, args, scan, lines, lineNum, runs>>

\* `go` statements: every run gets its value
StartRuns ==
  /\ pc = "idle"
  /\ \E values \in [Runs -> RunValues] :
       /\ args' = [values |-> values]
       /\ runs' = [r \in Runs |->
                     [IdleRun EXCEPT !.pc = "GetLogger",
                                     !.value = values[r],
                                     !.calls = InferSchemaCalls(values[r])]]
  /\ pc' = "running"
  /\ UNCHANGED <<g, ret, scan, lines, lineNum, globalLogger>>

\* GetLogger: `if globalLogger == nil`
ReadGlobalLogger(r) ==
  /\ runs[r].pc = "GetLogger"
  /\ runs' = [runs EXCEPT ![r].read = TRUE,
                          ![r].pc = IF globalLogger = <<>>
                                    THEN "initLogger" ELSE "return"]
  /\ UNCHANGED <<pc, g, args, ret, scan, lines, lineNum, globalLogger>>

\* initLogger: `globalLogger = slog.New(handler)`
NewLogger(r) ==
  /\ runs[r].pc = "initLogger"
  /\ globalLogger' = <<r>>
  /\ runs' = [runs EXCEPT ![r].wrote = TRUE, ![r].pc = "initLogger return"]
  /\ UNCHANGED <<pc, g, args, ret, scan, lines, lineNum>>

\* initLogger: `return globalLogger`
ReturnFromInitLogger(r) ==
  /\ runs[r].pc = "initLogger return"
  /\ runs' = [runs EXCEPT ![r].logger = globalLogger, ![r].pc = "assign"]
  /\ UNCHANGED <<pc, g, args, ret, scan, lines, lineNum, globalLogger>>

\* GetLogger: `globalLogger = initLogger()`
AssignGlobalLogger(r) ==
  /\ runs[r].pc = "assign"
  /\ globalLogger' = runs[r].logger
  /\ runs' = [runs EXCEPT ![r].pc = "return"]
  /\ UNCHANGED <<pc, g, args, ret, scan, lines, lineNum>>

\* GetLogger: `return globalLogger`; the next invocation of inferSchema
\* follows, if there is one
ReturnGlobalLogger(r) ==
  /\ runs[r].pc = "return"
  /\ runs' = [runs EXCEPT ![r].returned = @ \cup {globalLogger},
                          ![r].calls = @ - 1,
                          ![r].pc = IF runs[r].calls = 1
                                    THEN "inferred" ELSE "GetLogger"]
  /\ UNCHANGED <<pc, g, args, ret, scan, lines, lineNum, globalLogger>>

\* the run's inferSchema returns its schema tree
FinishRun(r) ==
  /\ runs[r].pc = "inferred"
  /\ \E ord \in Orders(runs[r].value) :
       runs' = [runs EXCEPT
                  ![r].ret = inferSchema(DefaultOptions, runs[r].value,
                                         W_a, ord),
                  ![r].pc = "done"]
  /\ UNCHANGED <<pc, g, args, ret, scan, lines, lineNum, globalLogger>>

\* the caller has waited for every run
JoinRuns ==
  /\ pc = "running"
  /\ \A r \in Runs : runs[r].pc = "done"
  /\ ret' = [r \in Runs |-> runs[r].ret]
  /\ pc' = "joined"
  /\ UNCHANGED <<g, args, scan, lines, lineNum, globalLogger, runs>>

NextRuns ==
  \/ CallGetLogger
  \/ StartRuns
  \/ \E r \in Runs : ReadGlobalLogger(r)
  \/ \E r \in Runs : NewLogger(r)
  \/ \E r \in Runs : ReturnFromInitLogger(r)
  \/ \E r \in Runs : AssignGlobalLogger(r)
  \/ \E r \in Runs : ReturnGlobalLogger(r)
  \/ \E r \in Runs : FinishRun(r)
  \/ JoinRuns
  \/ Return

SpecRuns == Init /\ [][NextRuns]_vars

(***************************************************************************)
(* Claims about concurrent runs                                            *)
(***************************************************************************)
\* two runs have accessed globalLogger, one of them writing
ConflictingAccess ==
  \E r1 \in Runs, r2 \in Runs :
    /\ r1 # r2
    /\ runs[r1].wrote
    /\ runs[r2].wrote \/ runs[r2].read

\* the loggers GetLogger has returned to the runs
ReturnedLoggers == UNION {runs[r].returned : r \in Runs}

\* C19: two inference runs executing concurrently, each on its own value
\* tree and schema tree, share no mutable state: no run reads or writes a
\* variable the other run writes, and every call of GetLogger, whichever
\* run makes it, returns the same logger instance.
C19_RunsShareNoMutableState ==
  /\ ~ConflictingAccess
  /\ Cardinality(ReturnedLoggers) <= 1

(***************************************************************************)
(* SpecMixed: hasMixedTypes on the sequences of at most MaxElements elements  *)
(***************************************************************************)
MaxElements == 3

\* one or two values of every kind a decoded sequence can hold
MixedElements ==
  { NilValue, BoolValue(TRUE), IntValue(1), IntValue(2), IntValue(3),
    UintValue(7), FloatValue(<<"2", ".", "5">>),
    StringValue(<<"a">>), StringValue(<<"b">>),
    SliceValue(<<>>), MapValue(<<>>) }

MixedSequences == UNION {[1..n -> MixedElements] : n \in 0..MaxElements}

CallHasMixedTypes ==
  /\ pc = "idle"
  /\ \E items \in MixedSequences :
       /\ args' = [items |-> items]
       /\ ret' = hasMixedTypes(items)
  /\ pc' = "hasMixedTypes"
  /\ UNCHANGED <<g, scan, lines, lineNum, globalLogger, runs>>

NextMixed == CallHasMixedTypes \/ Return

SpecMixed == Init /\ [][NextMixed]_vars

(***************************************************************************)
(* Claims about hasMixedTypes                                              *)
(***************************************************************************)
\* the class of an element: null, the integer kinds, the float kinds, and
\* one class for each other kind
ElementClass(item) ==
  IF item.kind = "nil" THEN "null"
  ELSE IF item.kind \in {"int", "uint"} THEN "integer kinds"
  ELSE IF item.kind = "float" THEN "float kinds"
  ELSE item.kind

ElementClasses(items) == {ElementClass(items[i]) : i \in 1..Len(items)}

\* C20: hasMixedTypes(items) is false whenever items has at most one
\* element; otherwise it is true exactly when the elements fall into more
\* than one class; [1, 2, 3] and ["a", "b"] give false, [1, "a"] and
\* [1, 2.5] give true.
C20_MixedIffSeveralClasses ==
  pc = "hasMixedTypes" =>
    /\ Len(args.items) <= 1 => ret = FALSE
    /\ Len(args.items) > 1 =>
         ret = (Cardinality(ElementClasses(args.items)) > 1)
    /\ args.items = <<IntValue(1), IntValue(2), IntValue(3)>> => ret = FALSE
    /\ args.items = <<StringValue(<<"a">>), StringValue(<<"b">>)>> =>
         ret = FALSE
    /\ args.items = <<IntValue(1), StringValue(<<"a">>)>> => ret = TRUE
    /\ args.items = <<IntValue(1), FloatValue(<<"2", ".", "5">>)>> =>
         ret = TRUE

\* hasMixedTypes([1, 2.5]) has returned true
C20_Witness ==
  /\ pc = "hasMixedTypes"
  /\ args.items = <<IntValue(1), FloatValue(<<"2", ".", "5">>)>>
  /\ ret = TRUE

(***************************************************************************)
(* Claims about the items of heterogeneous arrays                          *)
(***************************************************************************)
\* the tag of the class of an element
ClassTag(item) ==
  IF item.kind = "nil" THEN TypeNull
  ELSE IF item.kind = "bool" THEN TypeBoolean
  ELSE IF item.kind \in {"int", "uint", "float"} THEN TypeNumber
  ELSE IF item.kind = "string" THEN TypeString
  ELSE IF item.kind = "map" THEN TypeObject
  ELSE TypeArray

\* the tags of the classes in the order in which a scan from the left
\* first meets them
RECURSIVE TagsAsFirstMet(_, _)
TagsAsFirstMet(items, met) ==
  IF items = <<>> THEN met
  ELSE TagsAsFirstMet(
         Tail(items),
         IF \E i \in 1..Len(met) : met[i] = ClassTag(Head(items))
         THEN met ELSE Append(met, ClassTag(Head(items))))

\* inferSchema was called on a heterogeneous array and returned a schema
MixedArrayInferred ==
  /\ pc = "inferSchema"
  /\ args.value.kind = "slice"
  /\ hasMixedTypes(args.value.elems)
  /\ ~ret.err

\* C21: the items node synthesized for a heterogeneous array has as type
\* the duplicate-free list of one tag per class present among the elements,
\* in the order in which the classes are first met from left to right.
C21_ItemsTagsInDiscoveryOrder ==
  MixedArrayInferred =>
    /\ ret.schema[1].Items # <<>>
    /\ ret.schema[1].Items[1].Type
         = Union(TagsAsFirstMet(args.value.elems, <<>>))

(***************************************************************************)
(* Claims about the items of homogeneous arrays at matched paths           *)
(***************************************************************************)
\* the type inferSchema gives a value for its kind alone
StructuralType(value) ==
  IF value.kind = "nil" THEN Single(TypeNull)
  ELSE IF value.kind = "bool" THEN Single(TypeBoolean)
  ELSE IF value.kind = "int" THEN Single(TypeInteger)
  ELSE IF value.kind = "float" THEN Single(TypeNumber)
  ELSE IF value.kind = "string"
  THEN (IF isLikelyYAMLOrJSON(value.s)
        THEN Union(<<TypeString, TypeObject>>) ELSE Single(TypeString))
  ELSE IF value.kind = "slice" THEN Single(TypeArray)
  ELSE IF value.kind = "map"
  THEN (IF \E k \in DOMAIN value.m : KeySuggestsMultipleTypes(k)
        THEN Union(<<TypeObject, TypeString>>) ELSE Single(TypeObject))
  ELSE NoType

\* inferSchema returned a schema for a non-empty homogeneous array at a
\* path that a rule of the pattern table matches
HomogeneousAtMatchedPath ==
  /\ pc = "inferSchema"
  /\ args.value.kind = "slice"
  /\ args.value.elems # <<>>
  /\ ~hasMixedTypes(args.value.elems)
  /\ shouldSupportMultipleTypes(args.path).matched
  /\ ~ret.err

ItemPath == args.path \o <<"[", "0", "]">>

EndsWithIndicator(k) ==
  \E word \in { <<"a","n","n","o","t","a","t","i","o","n","s">>,
                <<"l","a","b","e","l","s">>,
                <<"n","o","d","e","s","e","l","e","c","t","o","r">>,
                <<"a","f","f","i","n","i","t","y">>,
                <<"s","e","l","e","c","t","o","r">> } :
    HasSuffix(ToLower(k), word)

\* C23: a mapping at a path that no rule of the pattern table matches has
\* the type [object, string] if and only if one of its keys ends, in any
\* case, with annotations, labels, nodeselector, affinity or selector;
\* otherwise its type is object.
C23_UnionIffIndicatorKey ==
  /\ pc = "inferSchema"
  /\ args.value.kind = "map"
  /\ ~shouldSupportMultipleTypes(args.path).matched
  /\ ~ret.err
  => ret.schema[1].Type =
       IF \E k \in DOMAIN args.value.m : EndsWithIndicator(k)
       THEN Union(<<TypeObject, TypeString>>)
       ELSE Single(TypeObject)

(***************************************************************************)
(* Claims about strings                                                    *)
(***************************************************************************)
\* the first of date, date-time, email, uri whose test the text passes
FirstMatchingFormat(s) ==
  LET formats == <<"date", "date-time", "email", "uri">>
      passes == <<isDate(s), isDateTime(s), isEmail(s), isURI(s)>>
  IN  IF \E i \in 1..4 : passes[i]
      THEN formats[CHOOSE i \in 1..4 :
                     passes[i] /\ \A j \in 1..(i - 1) : ~passes[j]]
      ELSE ""

\* inferSchema returned a schema for a string at a path no rule matches,
\* the "-" of an `enabled` path apart
StringAtUnmatchedPath ==
  /\ pc = "inferSchema"
  /\ args.value.kind = "string"
  /\ ~shouldSupportMultipleTypes(args.path).matched
  /\ ~(args.value.s = <<"-">>
         /\ (args.path = W_enabled
               \/ HasSuffix(args.path, <<".">> \o W_enabled)))
  /\ ~ret.err

\* C24: a string at an unmatched path that looks like YAML/JSON gets the
\* type [string, object] and no format; any other string gets the type
\* string and the first matching format among date, date-time, email, uri,
\* or none.
C24_StringTypeAndFormat ==
  StringAtUnmatchedPath =>
    IF LooksSerialized(args.value.s)
    THEN /\ ret.schema[1].Type = Union(<<TypeString, TypeObject>>)
         /\ ret.schema[1].Format = ""
    ELSE /\ ret.schema[1].Type = Single(TypeString)
         /\ ret.schema[1].Format = FirstMatchingFormat(args.value.s)

\* a text that passes the date and the email test has got the format date
C24_Witness ==
  /\ StringAtUnmatchedPath
  /\ args.value.s = S_dated_email
  /\ isDate(args.value.s) /\ isEmail(args.value.s)
  /\ ret.schema[1].Type = Single(TypeString)
  /\ ret.schema[1].Format = "date"

\* the nodes of the tree an operation of the inferrer has returned
ReturnedNodes ==
  IF pc \in {"inferSchema", "GenerateFromMap", "GenerateFromYAML"} /\ ~ret.err
  THEN {n[2] : n \in SubtreesAt(ret.schema[1], <<>>)}
  ELSE {}

\* C27: inferSchema never produces the format uri: a string with the prefix
\* http:// or https:// has a ':' on its first line, so it is either
\* overridden by a pattern rule or classified as YAML/JSON-like, of type
\* [string, object], and in both cases gets no format.
C27_NoUriFormat ==
  /\ \A n \in ReturnedNodes : n.Format # "uri"
  /\ (/\ pc = "inferSchema"
      /\ args.value.kind = "string"
      /\ isURI(args.value.s))
     => /\ ~ret.err
        /\ ret.schema[1].Format = ""
        /\ Contains(ScanLines(args.value.s)[1], <<":">>)
        /\ ret.schema[1].Type =
             IF shouldSupportMultipleTypes(args.path).matched
             THEN Union(shouldSupportMultipleTypes(args.path).types)
             ELSE Union(<<TypeString, TypeObject>>)

\* inferSchema has returned [string, object] without a format for a URL
C27_Witness ==
  /\ pc = "inferSchema"
  /\ args.value = StringValue(S_uri)
  /\ isURI(args.value.s)
  /\ args.path = W_a
  /\ ret.schema[1].Type = Union(<<TypeString, TypeObject>>)
  /\ ret.schema[1].Format = ""

(***************************************************************************)
(* SpecIndents: ExtractFromYAML over key lines at any indentations, as the *)
(* lines of a flow mapping or of a block scalar can be                     *)
(***************************************************************************)
\* the documents of at most MaxKeyLines key lines `a:`, each at any of the
\* indentations
IndentedDocuments ==
  UNION {{NestedLines(ind, [i \in 1..n |-> W_a], 0) :
            ind \in SeqsOver(NestedIndents, n)} : n \in 1..MaxKeyLines}

CallExtractIndented ==
  /\ pc = "idle"
  /\ \E ls \in IndentedDocuments :
       /\ args' = [yamlData |-> FileOf(ls)]
       /\ lines' = ScanLines(FileOf(ls))
  /\ scan' = NewScan
  /\ lineNum' = 0
  /\ pc' = "scanning"
  /\ UNCHANGED <<g, ret, globalLogger, runs>>

NextIndents == CallExtractIndented \/ ScanStep \/ FinishExtract \/ Return

SpecIndents == Init /\ [][NextIndents]_vars

\* C25: after a key line at indentation n has been processed, the tracked
\* levels contain n exactly once and no level deeper than n, whatever the
\* sequence of indentations of the key lines.
C25_LevelsEndAtCurrentIndent ==
  (pc = "scanning" /\ lineNum >= 1 /\ IsKeyLineAt(lineNum)) =>
    LET n == IndentAt(lineNum)
        levels == scan.lineIndents
    IN  /\ Cardinality({i \in 1..Len(levels) : levels[i] = n}) = 1
        /\ \A i \in 1..Len(levels) : levels[i] <= n

(***************************************************************************)
(* Claims about the lines ExtractFromYAML passes over                      *)
(***************************************************************************)
\* a non-blank line that is neither a comment nor contains ':'
IsOtherLine(line) ==
  ~IsBlankLine(line) /\ ~IsCommentLine(line) /\ ~Contains(line, <<":">>)

\* a line that reaches the key branch of the loop
IsColonLine(line) ==
  ~IsBlankLine(line) /\ ~IsCommentLine(line) /\ Contains(line, <<":">>)

\* line i is a comment with a text, and only lines that are neither comments
\* nor key lines lie between it and line j
PendingFrom(i, j) ==
  /\ i < j
  /\ IsCommentLine(lines[i])
  /\ CommentText(lines[i]) # <<>>
  /\ \A k \in (i + 1)..(j - 1) : IsOtherLine(lines[k]) \/ IsBlankLine(lines[k])

\* C29: in ExtractFromYAML the pending comment buffer is changed only by a
\* comment line and by a key line; a non-blank line that is neither a comment
\* nor contains ':' leaves the buffer, the indentation levels and the comment
\* map unchanged, so a pending comment is attached to the next line
\* containing ':' however many such lines lie in between.
C29_OtherLinesChangeNothing ==
  /\ [][(pc = "scanning" /\ lineNum' = lineNum + 1) =>
          /\ scan'.pendingComments # scan.pendingComments =>
               IsCommentLine(lines[lineNum']) \/ IsColonLine(lines[lineNum'])
          /\ IsOtherLine(lines[lineNum']) =>
               /\ scan'.pendingComments = scan.pendingComments
               /\ scan'.lineIndents = scan.lineIndents
               /\ scan'.indentToPath = scan.indentToPath
               /\ scan'.comments = scan.comments]_vars
  /\ [](pc = "scanning" =>
          \A j \in 1..lineNum : \A i \in 1..(j - 1) :
            (IsColonLine(lines[j]) /\ PendingFrom(i, j)) =>
              /\ PathAt(j) \in DOMAIN scan.comments
              /\ \/ \E h \in (j + 1)..lineNum :
                      IsColonLine(lines[h]) /\ PathAt(h) = PathAt(j)
                 \/ HasSuffix(scan.comments[PathAt(j)], CommentText(lines[i])))

\* a comment, two list items, then a key line that takes the comment
C29_Witness ==
  /\ pc = "scanning"
  /\ lineNum = 4
  /\ lines = <<L_comment, L_item, L_item, L_key>>
  /\ scan.comments = (<<"a">> :> <<"c">>)
  /\ scan.pendingComments = <<>>

(***************************************************************************)
(* Claims about the top-level comment                                      *)
(***************************************************************************)
\* the nodes below the root of the returned tree whose HelmPath is empty
UnpathedNodes ==
  {n \in DescribedAt(ret.schema[1], <<>>) : n[1] # <<>> /\ n[2] = <<>>}

\* C26: the document-level comment that ExtractFromYAML stores under the
\* empty path is applied as a description only to the root node: after
\* GenerateFromYAML no non-root node (property, array items, items of a
\* mixed-type array) has received the top-level comment through a lookup of
\* the empty path.
C26_TopCommentOnlyOnRoot ==
  (/\ pc = "GenerateFromYAML" /\ ~ret.err /\ g.ExtractDescriptions
   /\ <<>> \in DOMAIN ExtractFromYAML(args.yamlData.bytes)) =>
    \A n \in UnpathedNodes :
      n[3] # ExtractFromYAML(args.yamlData.bytes)[<<>>]

(***************************************************************************)
(* Claims about the comment block before the first key                     *)
(***************************************************************************)
\* the lines of the document GenerateFromYAML was called on
DocumentLines == ScanLines(args.yamlData.bytes)

\* the index of the first key line of the document, 0 when it has none
FirstKeyLine ==
  IF \E i \in 1..Len(DocumentLines) : IsColonLine(DocumentLines[i])
  THEN CHOOSE i \in 1..Len(DocumentLines) :
         /\ IsColonLine(DocumentLines[i])
         /\ \A j \in 1..(i - 1) : ~IsColonLine(DocumentLines[j])
  ELSE 0

\* the text of the comment lines before the first key line
FirstBlock ==
  ScanAll(NewScan, SubSeq(DocumentLines, 1, FirstKeyLine - 1)).pendingComments

\* the key of the first key line
FirstKey == KeyOf(DocumentLines[FirstKeyLine])

\* the key yaml.Unmarshal reads on that line: a double-quoted key without
\* its quotes
FirstKeyName ==
  IF Len(FirstKey) >= 2 /\ Head(FirstKey) = "\"" /\ FirstKey[Len(FirstKey)] = "\""
  THEN SubSeq(FirstKey, 2, Len(FirstKey) - 1)
  ELSE FirstKey

\* GenerateFromYAML has returned a schema with descriptions extracted, none
\* configured, from a document with comments before its first key line
FirstBlockApplied ==
  /\ pc = "GenerateFromYAML"
  /\ ~ret.err
  /\ g.ExtractDescriptions
  /\ g.Description = <<>>
  /\ FirstKeyLine # 0
  /\ FirstBlock # <<>>

\* C28: the comment block preceding the first key line is recorded twice by
\* ExtractFromYAML, under the empty path and under the first key's path, so
\* after GenerateFromYAML with ExtractDescriptions enabled and no configured
\* description the root node and the first key's node carry the same
\* description text.
C28_FirstBlockDescribesRootAndFirstKey ==
  FirstBlockApplied =>
    LET comments == ExtractFromYAML(args.yamlData.bytes)
        root == ret.schema[1]
    IN  /\ {<<>>, FirstKey} \subseteq DOMAIN comments
        /\ comments[<<>>] = FirstBlock
        /\ comments[FirstKey] = FirstBlock
        /\ root.Description = FirstBlock
        /\ root.Properties # <<>>
        /\ FirstKeyName \in DOMAIN root.Properties[1]
        /\ root.Properties[1][FirstKeyName].Description = FirstBlock

(***************************************************************************)
(* Claims about the root under SpecializeSchemaForHelm                     *)
(***************************************************************************)
\* C30: SpecializeSchemaForHelm preserves the root node's metadata: for
\* every root schema produced by GenerateFromMap, whatever its top-level
\* keys, the schema it returns carries the same $schema, title and
\* description as the root that was passed in.
C30_RootMetadataIsPreserved ==
  pc = "SpecializeSchemaForHelm" =>
    /\ ret.Schema = args.schema.Schema
    /\ ret.Title = args.schema.Title
    /\ ret.Description = args.schema.Description
====
